---------------------------- MODULE Spec2Model ----------------------------
(***************************************************************************)
(* A model of the EPUB parser of obsidian-smart-eReader (src/epubParser.ts)*)
(*                                                                         *)
(* Strings are sequences of tokens.  The token "/" is the path separator,  *)
(* the token "." is a single dot, and every other token is an opaque run   *)
(* of characters that holds no '/' and is not made of dots only            *)
(* ("OEBPS", "ch1.html").  So 'OEBPS/text/' is <<"OEBPS","/","text","/">>, *)
(* '../a' is <<".", ".", "/", "a">> and '' is <<>>.                        *)
(***************************************************************************)
EXTENDS Integers, Sequences, FiniteSets, TLC

VARIABLES
    pathIn,     \* SpecPath: the arguments of one resolveRelativePath call
    pathOut,    \* SpecPath: its result, NULL before the call
    opfIn,      \* SpecManifest: the arguments of one parseManifest call
    manifestOut,\* SpecManifest: its result, NULL before the call
    ncxIn,      \* SpecNav: the navigation document of one parseNavPoints call
    navOut,     \* SpecNav: its result, NULL before the call
    coverIn,    \* SpecCover: the arguments of one findCoverPath call
    coverOut,   \* SpecCover: its result, NULL before the call
    spineIn,    \* SpecSpine: the package document of one parseSpine call
    spineOut,   \* SpecSpine: its result, NULL before the call
    epub,       \* Spec: the archive handed to parseEpub
    parse,      \* Spec: the locals of the parseEpub invocation and its place
    loop,       \* SpecCallers: the callers of parseEpub and the event loop
    htmlIn,     \* SpecHtml: the markup document of one processHtml call
    htmlOut,    \* SpecHtml: its result, NULL before the call
    library,    \* SpecLibrary: the BookLibrary, the vault and the calls under way
    storage,    \* SpecStorage: the plugin data store and the calls under way
    reader      \* SpecReader: the ReaderView

vars == <<pathIn, pathOut, opfIn, manifestOut, ncxIn, navOut, coverIn, coverOut,
          spineIn, spineOut, epub, parse, loop, htmlIn, htmlOut, library,
          storage, reader>>
htmlVars == <<htmlIn, htmlOut>>
pluginVars == <<library, storage, reader>>
epubVars == <<epub, parse, loop>>
navVars == <<ncxIn, navOut>>
coverVars == <<coverIn, coverOut>>
spineVars == <<spineIn, spineOut>>

pathVars == <<pathIn, pathOut>>
manifestVars == <<opfIn, manifestOut>>

\* an optional value: undefined / null, or a value
NULL == [some |-> FALSE]
Some(v) == [some |-> TRUE, value |-> v]

-----------------------------------------------------------------------------
(* Bounds *)

\* segments in a reference handed to resolveRelativePath
MaxRefSegs == 3
\* segments in a base path handed to resolveRelativePath
MaxBaseSegs == 3
\* item elements in a package document's manifest
MaxItems == 2
\* navPoint elements in a navigation document
MaxNavPoints == 3
\* itemref elements in a spine
MaxItemrefs == 3
\* img elements in a markup document
MaxImgs == 2

-----------------------------------------------------------------------------
(* String primitives of the JavaScript runtime, on token sequences *)

Slash == "/"
Dot == "."

startsWith(s, p) ==
    /\ Len(s) >= Len(p)
    /\ SubSeq(s, 1, Len(p)) = p

\* String.prototype.lastIndexOf('/') + 1: the 1-based place of the last
\* separator, 0 when there is none
lastIndexOfSlash(s) ==
    IF \E i \in 1..Len(s) : s[i] = Slash
    THEN CHOOSE i \in 1..Len(s) :
            /\ s[i] = Slash
            /\ \A j \in (i+1)..Len(s) : s[j] # Slash
    ELSE 0

indexOfSlash(s) ==
    IF \E i \in 1..Len(s) : s[i] = Slash
    THEN CHOOSE i \in 1..Len(s) :
            /\ s[i] = Slash
            /\ \A j \in 1..(i-1) : s[j] # Slash
    ELSE 0

\* String.prototype.split('/'): never empty, ''.split('/') is ['']
RECURSIVE split(_)
split(s) ==
    LET i == indexOfSlash(s)
    IN IF i = 0 THEN <<s>>
       ELSE <<SubSeq(s, 1, i - 1)>> \o split(SubSeq(s, i + 1, Len(s)))

\* Array.prototype.join('/'): [].join('/') is ''
RECURSIVE join(_)
join(parts) ==
    IF Len(parts) = 0 THEN <<>>
    ELSE IF Len(parts) = 1 THEN parts[1]
    ELSE parts[1] \o <<Slash>> \o join(Tail(parts))

\* Array.prototype.pop() on a non-empty array: what is left
Front(a) == SubSeq(a, 1, Len(a) - 1)

Last(a) == a[Len(a)]

-----------------------------------------------------------------------------
(* resolveRelativePath *)

DotSeg == <<Dot>>
DotDotSeg == <<Dot, Dot>>

\* the loop over the reference's parts (epubParser.ts 279-289)
RECURSIVE processParts(_, _)
processParts(parts, basePathParts) ==
    IF Len(parts) = 0 THEN basePathParts
    ELSE LET part == Head(parts)
             next == IF part = DotDotSeg
                     THEN IF Len(basePathParts) > 0
                          THEN Front(basePathParts)
                          ELSE basePathParts
                     ELSE IF part # DotSeg /\ Len(part) > 0
                          THEN Append(basePathParts, part)
                          ELSE basePathParts
         IN processParts(Tail(parts), next)

\* the base path's parts after "Remove the file part of the base path"
baseParts(basePath) ==
    LET basePathParts == SelectSeq(split(basePath), LAMBDA p : Len(p) > 0)
    IN IF Len(basePathParts) > 0 THEN Front(basePathParts) ELSE basePathParts

\* resolveRelativePath without the branch of lines 263-265: a leading '/' is
\* resolved against the base like any other reference
resolveAgainstBase(relativePath, basePath) ==
    IF basePath = <<>>
    THEN relativePath
    ELSE join(processParts(split(relativePath), baseParts(basePath)))

resolveRelativePath(relativePath, basePath) ==
    IF startsWith(relativePath, <<Slash>>)
    THEN Tail(relativePath)
    ELSE IF basePath = <<>>
    THEN relativePath
    ELSE join(processParts(split(relativePath), baseParts(basePath)))

-----------------------------------------------------------------------------
(* parseManifest *)

\* An attribute read by getAttribute is NULL or Some(string).  Ids and
\* properties are TLA+ strings, hrefs and media types are token sequences.
truthyAttr(a) == a.some /\ a.value # ""
truthyPath(a) == a.some /\ a.value # <<>>

\* A Record<string, EpubManifestItem> is the sequence of its values in
\* insertion order (the order of Object.values for keys that are not array
\* indices); assigning to a key that exists keeps its place.
hasKey(rec, id) == \E i \in 1..Len(rec) : rec[i].id = id

lookup(rec, id) == rec[CHOOSE i \in 1..Len(rec) : rec[i].id = id]

\* an assignment that leaves a key that exists as it is
assignOnce(rec, item) ==
    IF hasKey(rec, item.id) THEN rec ELSE Append(rec, item)

assign(rec, item) ==
    IF hasKey(rec, item.id)
    THEN [i \in 1..Len(rec) |-> IF rec[i].id = item.id THEN item ELSE rec[i]]
    ELSE Append(rec, item)

\* the forEach over the item elements (epubParser.ts 238-253)
RECURSIVE manifestLoop(_, _, _)
manifestLoop(items, basePath, manifestItems) ==
    IF Len(items) = 0 THEN manifestItems
    ELSE LET item == Head(items)
             next == IF /\ truthyAttr(item.id)
                        /\ truthyPath(item.href)
                        /\ truthyPath(item.mediaType)
                     THEN assign(manifestItems,
                                 [id |-> item.id.value,
                                  href |-> resolveRelativePath(item.href.value, basePath),
                                  mediaType |-> item.mediaType.value])
                     ELSE manifestItems
         IN manifestLoop(Tail(items), basePath, next)

parseManifest(items, basePath) == manifestLoop(items, basePath, <<>>)

-----------------------------------------------------------------------------
(* parseNavPoints, parseNavPoint *)

(* A navPoint element is a record                                          *)
(*   id, playOrder : attributes, NULL or Some(string)                      *)
(*   label   : the element's own 'navLabel text' element: NULL when it has *)
(*             none, else Some(its textContent)                            *)
(*   content : the element's own content element: NULL when it has none,   *)
(*             else Some(its src attribute), itself NULL or Some(string)   *)
(*   kids    : its child navPoint elements, in document order              *)
(* with navLabel and content standing before the child navPoints, as the   *)
(* NCX schema orders them.                                                 *)

\* a JavaScript number: an integer or NaN
Num(n) == [nan |-> FALSE, n |-> n]
NaN == [nan |-> TRUE, n |-> 0]

\* parseInt(s, 10) on the playOrder values of the model
parseInt(s) ==
    CASE s = "1" -> Num(1)
      [] s = "2" -> Num(2)
      [] s = "3" -> Num(3)
      [] OTHER -> NaN

\* element.querySelector('navLabel text'): the first in document order among
\* the element's descendants, those inside nested navPoints included
RECURSIVE firstLabel(_)
RECURSIVE firstLabelIn(_)
firstLabel(element) ==
    IF element.label.some THEN element.label ELSE firstLabelIn(element.kids)
firstLabelIn(kids) ==
    IF Len(kids) = 0 THEN NULL
    ELSE IF firstLabel(Head(kids)).some THEN firstLabel(Head(kids))
    ELSE firstLabelIn(Tail(kids))

\* element.querySelector('content')
RECURSIVE firstContent(_)
RECURSIVE firstContentIn(_)
firstContent(element) ==
    IF element.content.some THEN element.content ELSE firstContentIn(element.kids)
firstContentIn(kids) ==
    IF Len(kids) = 0 THEN NULL
    ELSE IF firstContent(Head(kids)).some THEN firstContent(Head(kids))
    ELSE firstContentIn(Tail(kids))

\* the early return of parseNavPoint (epubParser.ts 350-352)
navPointDropped(element) ==
    \/ ~truthyAttr(element.id)
    \/ ~truthyAttr(firstLabel(element))
    \/ ~firstContent(element).some

\* parseNavPoint: NULL or Some(NavPoint).  elem is the place of the source
\* element (its child indices from navMap down), kept to tell elements apart.
RECURSIVE parseNavPoint(_, _)
RECURSIVE parseChildren(_, _, _)
parseNavPoint(element, elem) ==
    IF navPointDropped(element) THEN NULL
    ELSE Some([ id |-> element.id.value,
                label |-> firstLabel(element).value,
                href |-> IF truthyAttr(firstContent(element).value)
                         THEN firstContent(element).value.value ELSE "",
                order |-> IF truthyAttr(element.playOrder)
                          THEN parseInt(element.playOrder.value) ELSE Num(0),
                children |-> parseChildren(element.kids, elem, 1),
                elem |-> elem ])
\* the forEach over ':scope > navPoint' (epubParser.ts 360-367)
parseChildren(kids, elem, i) ==
    IF i > Len(kids) THEN <<>>
    ELSE LET childNavPoint == parseNavPoint(kids[i], Append(elem, i))
         IN (IF childNavPoint.some THEN <<childNavPoint.value>> ELSE <<>>)
            \o parseChildren(kids, elem, i + 1)

\* navMap.querySelectorAll('navPoint'): every descendant navPoint element in
\* document order, each with its place
RECURSIVE querySelectorAllNavPoint(_, _, _)
querySelectorAllNavPoint(kids, elem, i) ==
    IF i > Len(kids) THEN <<>>
    ELSE <<[element |-> kids[i], elem |-> Append(elem, i)]>>
         \o querySelectorAllNavPoint(kids[i].kids, Append(elem, i), 1)
         \o querySelectorAllNavPoint(kids, elem, i + 1)

\* the forEach of parseNavPoints (epubParser.ts 330-335)
RECURSIVE navPointLoop(_)
navPointLoop(navPointElements) ==
    IF Len(navPointElements) = 0 THEN <<>>
    ELSE LET navPoint == parseNavPoint(Head(navPointElements).element,
                                       Head(navPointElements).elem)
         IN (IF navPoint.some THEN <<navPoint.value>> ELSE <<>>)
            \o navPointLoop(Tail(navPointElements))

\* (a, b) => a.order - b.order as Array.prototype.sort reads it: a NaN
\* result counts as +0
compareOrder(a, b) ==
    IF a.order.nan \/ b.order.nan THEN 0 ELSE a.order.n - b.order.n

\* a stable sort: insertion from the left
RECURSIVE insertSorted(_, _)
insertSorted(sorted, x) ==
    IF Len(sorted) = 0 THEN <<x>>
    ELSE IF compareOrder(Last(sorted), x) <= 0 THEN Append(sorted, x)
    ELSE Append(insertSorted(Front(sorted), x), Last(sorted))

RECURSIVE stableSort(_)
stableSort(list) ==
    IF Len(list) = 0 THEN <<>>
    ELSE insertSorted(stableSort(Front(list)), Last(list))

\* the comparator is consistent unless a NaN order sits beside two different
\* numeric orders
consistentComparator(list) ==
    ~ /\ \E i \in 1..Len(list) : list[i].order.nan
      /\ \E i, j \in 1..Len(list) :
            /\ ~list[i].order.nan
            /\ ~list[j].order.nan
            /\ list[i].order.n # list[j].order.n

\* Array.prototype.sort: the stable sort for a consistent comparator, and an
\* implementation-defined order (any permutation) otherwise
sortOutcomes(list) ==
    IF consistentComparator(list) THEN {stableSort(list)}
    ELSE {[i \in 1..Len(list) |-> list[p[i]]] : p \in Permutations(1..Len(list))}

\* parseNavPoints: the results it can return
parseNavPoints(ncxDoc) ==
    IF ncxDoc.navMap.some
    THEN sortOutcomes(navPointLoop(querySelectorAllNavPoint(ncxDoc.navMap.value, <<>>, 1)))
    ELSE {<<>>}

-----------------------------------------------------------------------------
(* Media types *)

XHTML == <<"application", Slash, "xhtml+xml">>
HTML == <<"text", Slash, "html">>
NCX == <<"application", Slash, "x-dtbncx+xml">>
JPEG == <<"image", Slash, "jpeg">>
PNG == <<"image", Slash, "png">>

isImageType(mediaType) == startsWith(mediaType, <<"image", Slash>>)

isMarkupType(mediaType) == mediaType = XHTML \/ mediaType = HTML

-----------------------------------------------------------------------------
(* parseMetadata, parseSpine *)

\* The metadata element is NULL or Some(function from the local name of a
\* child element to its textContent); a field is kept when the text is not ''.
metadataKey(el) ==
    CASE el = "date" -> "published"
      [] el = "dcterms:modified" -> "modified"
      [] OTHER -> el

MetadataElements ==
    {"title", "creator", "publisher", "language", "identifier", "description",
     "rights", "date", "dcterms:modified"}

parseMetadata(opfDoc) ==
    IF ~opfDoc.metadata.some THEN {}
    ELSE LET els == opfDoc.metadata.value
         IN { [key |-> metadataKey(el), text |-> els[el]] :
                el \in {e \in DOMAIN els \cap MetadataElements : els[e] # ""} }

\* a loop over the itemref elements that keeps an idref only the first time
\* it is met
RECURSIVE spineLoopOnce(_)
spineLoopOnce(itemRefs) ==
    IF Len(itemRefs) = 0 THEN <<>>
    ELSE LET before == spineLoopOnce(Front(itemRefs))
             idref == Last(itemRefs)
         IN IF /\ truthyAttr(idref)
               /\ \A i \in 1..Len(before) : before[i] # idref.value
            THEN Append(before, idref.value)
            ELSE before

\* the spine element is NULL or Some([toc : attribute, itemrefs : idref attributes])
RECURSIVE spineLoop(_)
spineLoop(itemRefs) ==
    IF Len(itemRefs) = 0 THEN <<>>
    ELSE (IF truthyAttr(Head(itemRefs)) THEN <<Head(itemRefs).value>> ELSE <<>>)
         \o spineLoop(Tail(itemRefs))

parseSpine(opfDoc) ==
    IF opfDoc.spine.some
    THEN [ items |-> spineLoop(opfDoc.spine.value.itemrefs),
           toc |-> IF truthyAttr(opfDoc.spine.value.toc)
                   THEN opfDoc.spine.value.toc.value ELSE "" ]
    ELSE [items |-> <<>>, toc |-> ""]

-----------------------------------------------------------------------------
(* findCoverPath *)

\* the ids and the path tokens of the model whose lower case holds 'cover'
CoverIds == {"cover", "cover-image", "Cover1"}
CoverTokens == {"cover.jpg", "Cover.png", "covers"}

idIncludesCover(id) == id \in CoverIds
hrefIncludesCover(href) == \E i \in 1..Len(href) : href[i] \in CoverTokens

\* Strategy 1: the first meta[name="cover"] element is opfDoc.coverMeta, NULL
\* or Some(its content attribute)
coverStrategy1(opfDoc, manifest) ==
    IF /\ opfDoc.coverMeta.some
       /\ truthyAttr(opfDoc.coverMeta.value)
       /\ hasKey(manifest, opfDoc.coverMeta.value.value)
    THEN Some(lookup(manifest, opfDoc.coverMeta.value.value).href)
    ELSE NULL

\* Strategy 2: the ids 'cover', then 'cover-image'
coverStrategy2(manifest) ==
    IF hasKey(manifest, "cover") /\ isImageType(lookup(manifest, "cover").mediaType)
    THEN Some(lookup(manifest, "cover").href)
    ELSE IF /\ hasKey(manifest, "cover-image")
            /\ isImageType(lookup(manifest, "cover-image").mediaType)
    THEN Some(lookup(manifest, "cover-image").href)
    ELSE NULL

\* Strategy 3: the item elements with properties="cover-image", in document order
RECURSIVE coverStrategy3(_, _)
coverStrategy3(items, manifest) ==
    IF Len(items) = 0 THEN NULL
    ELSE IF /\ Head(items).properties = Some("cover-image")
            /\ truthyAttr(Head(items).id)
            /\ hasKey(manifest, Head(items).id.value)
    THEN Some(lookup(manifest, Head(items).id.value).href)
    ELSE coverStrategy3(Tail(items), manifest)

\* Strategy 4: the first image item with 'cover' in its id or href
RECURSIVE coverStrategy4(_)
coverStrategy4(values) ==
    IF Len(values) = 0 THEN NULL
    ELSE IF /\ isImageType(Head(values).mediaType)
            /\ \/ idIncludesCover(Head(values).id)
               \/ hrefIncludesCover(Head(values).href)
    THEN Some(Head(values).href)
    ELSE coverStrategy4(Tail(values))

\* findCoverPath with Strategy 3 tried before Strategy 2
findCoverPathPropertiesFirst(opfDoc, manifest) ==
    IF coverStrategy1(opfDoc, manifest).some THEN coverStrategy1(opfDoc, manifest)
    ELSE IF coverStrategy3(opfDoc.items, manifest).some
    THEN coverStrategy3(opfDoc.items, manifest)
    ELSE IF coverStrategy2(manifest).some THEN coverStrategy2(manifest)
    ELSE coverStrategy4(manifest)

findCoverPath(opfDoc, manifest) ==
    IF coverStrategy1(opfDoc, manifest).some THEN coverStrategy1(opfDoc, manifest)
    ELSE IF coverStrategy2(manifest).some THEN coverStrategy2(manifest)
    ELSE IF coverStrategy3(opfDoc.items, manifest).some
    THEN coverStrategy3(opfDoc.items, manifest)
    ELSE coverStrategy4(manifest)

-----------------------------------------------------------------------------
(* processHtml *)

\* the tokens of the model that begin with the characters 'http'
HttpTokens == {"http:", "https:", "httpdocs"}

startsWithHttp(s) == Len(s) > 0 /\ s[1] \in HttpTokens

\* A markup document is [file, imgs, links]: its img elements, each
\* [src, dataOriginalSrc : attributes, classList : set], and its
\* link[rel="stylesheet"] elements, each [href, dataOriginalHref : attributes].
processImg(img) ==
    IF truthyPath(img.src) /\ ~startsWithHttp(img.src.value)
    THEN [img EXCEPT !.dataOriginalSrc = Some(img.src.value),
                     !.classList = @ \cup {"epub-image"}]
    ELSE img

processLink(link) ==
    IF truthyPath(link.href) /\ ~startsWithHttp(link.href.value)
    THEN [link EXCEPT !.dataOriginalHref = Some(link.href.value)]
    ELSE link

processHtml(html) ==
    [ html EXCEPT !.imgs = [i \in 1..Len(html.imgs) |-> processImg(html.imgs[i])],
                  !.links = [i \in 1..Len(html.links) |-> processLink(html.links[i])] ]

-----------------------------------------------------------------------------
(* The archive: JSZip *)

(* An archive is [openable, entries, containerDoc, opfDoc, ncxDoc].        *)
(* entries maps a path to the state of the entry stored under it:          *)
(*   "data"    it decompresses to content that is not empty                *)
(*   "empty"   it decompresses to no content                               *)
(*   "corrupt" async() rejects: the entry cannot be decompressed           *)
(* and a path outside its domain has no entry (zip.file(path) is null).    *)
(* The documents are what the container descriptor, the package document   *)
(* and the navigation document parse to.                                   *)

entryState(zip, path) ==
    IF path \in DOMAIN zip.entries THEN zip.entries[path] ELSE "absent"

\* zip.file(path)?.async(...) rejects
readThrows(zip, path) == entryState(zip, path) = "corrupt"

\* zip.file(path)?.async('string') is a string that is not ''
readsText(zip, path) == entryState(zip, path) = "data"

\* zip.file(path)?.async('uint8array') is an array (an empty one is truthy)
readsBytes(zip, path) == entryState(zip, path) \in {"data", "empty"}

\* the bytes of an entry, told apart by the entry they come from
bytesOf(zip, path) == [entry |-> path, state |-> entryState(zip, path)]

\* the markup an entry holds
htmlOf(path) ==
    [ file |-> path,
      imgs |-> << [ src |-> Some(<<"images", Slash, "fig.png">>),
                    dataOriginalSrc |-> NULL, classList |-> {} ],
                  [ src |-> Some(<<"http:", Slash, Slash, "example.org", Slash, "a.png">>),
                    dataOriginalSrc |-> NULL, classList |-> {} ] >>,
      links |-> << [href |-> Some(<<"style.css">>), dataOriginalHref |-> NULL] >> ]

ContainerPath == <<"META-INF", Slash, "container.xml">>

-----------------------------------------------------------------------------
(* parseEpub *)

\* a Record keyed by string, as a function; put is record[key] = value
put(record, key, value) ==
    [k \in DOMAIN record \cup {key} |-> IF k = key THEN value ELSE record[k]]

EmptyRecord == [k \in {} |-> NULL]

errorPlaceholder(path) == [error |-> "Error loading content", file |-> path]

fail(message) == [parse EXCEPT !.pc = "failed", !.error = message]

\* where the invocation goes once entry i of Object.values(manifest) is done
afterImage(manifest, i) ==
    IF i < Len(manifest) THEN [pc |-> "images", i |-> i + 1]
    ELSE [pc |-> "markup", i |-> 1]

\* afterMarkup where the resources are loaded anew once the markup is done
afterMarkupReload(manifest, i) ==
    IF i < Len(manifest) THEN [pc |-> "markup", i |-> i + 1]
    ELSE [pc |-> "images", i |-> 1]

afterMarkup(manifest, i) ==
    IF i < Len(manifest) THEN [pc |-> "markup", i |-> i + 1]
    ELSE [pc |-> "return", i |-> 1]

\* line 52: JSZip.loadAsync
Open ==
    /\ parse # NULL
    /\ parse.pc = "open"
    /\ parse' = IF epub.openable THEN [parse EXCEPT !.pc = "container"]
                ELSE fail("Corrupted zip")
    /\ UNCHANGED <<epub, loop, pathVars, manifestVars, navVars, coverVars, spineVars,
                   htmlVars, pluginVars>>

\* Container without the check of line 56: a missing descriptor goes unnoticed
ContainerUnchecked ==
    /\ parse # NULL
    /\ parse.pc = "container"
    /\ parse' =
         IF readThrows(epub, ContainerPath) THEN fail("read error")
         ELSE IF ~(epub.containerDoc.rootfile.some
                   /\ truthyPath(epub.containerDoc.rootfile.value))
         THEN fail("Invalid EPUB: Unable to find rootfile path")
         ELSE [parse EXCEPT !.pc = "package",
                            !.rootfilePath = epub.containerDoc.rootfile.value.value]
    /\ UNCHANGED <<epub, loop, pathVars, manifestVars, navVars, coverVars, spineVars,
                   htmlVars, pluginVars>>

\* lines 55-64: the Container stage
Container ==
    /\ parse # NULL
    /\ parse.pc = "container"
    /\ parse' =
         IF readThrows(epub, ContainerPath) THEN fail("read error")
         ELSE IF ~readsText(epub, ContainerPath)
         THEN fail("Invalid EPUB: Missing container.xml")
         ELSE IF ~(epub.containerDoc.rootfile.some
                   /\ truthyPath(epub.containerDoc.rootfile.value))
         THEN fail("Invalid EPUB: Unable to find rootfile path")
         ELSE [parse EXCEPT !.pc = "package",
                            !.rootfilePath = epub.containerDoc.rootfile.value.value]
    /\ UNCHANGED <<epub, loop, pathVars, manifestVars, navVars, coverVars, spineVars,
                   htmlVars, pluginVars>>

\* Package without the check of line 68: a missing package document goes
\* unnoticed
PackageUnchecked ==
    /\ parse # NULL
    /\ parse.pc = "package"
    /\ parse' =
         IF readThrows(epub, parse.rootfilePath) THEN fail("read error")
         ELSE LET basePath == SubSeq(parse.rootfilePath, 1,
                                     lastIndexOfSlash(parse.rootfilePath))
                  manifest == parseManifest(epub.opfDoc.items, basePath)
                  spine == parseSpine(epub.opfDoc)
                  tocHref == IF hasKey(manifest, spine.toc)
                             THEN Some(lookup(manifest, spine.toc).href) ELSE NULL
              IN [parse EXCEPT !.pc = IF truthyPath(tocHref) THEN "navigation"
                                      ELSE "cover",
                               !.basePath = basePath,
                               !.metadata = parseMetadata(epub.opfDoc),
                               !.manifest = manifest,
                               !.spine = spine,
                               !.tocHref = tocHref]
    /\ UNCHANGED <<epub, loop, pathVars, manifestVars, navVars, coverVars, spineVars,
                   htmlVars, pluginVars>>

\* lines 67-90: the Package stage
Package ==
    /\ parse # NULL
    /\ parse.pc = "package"
    /\ parse' =
         IF readThrows(epub, parse.rootfilePath) THEN fail("read error")
         ELSE IF ~readsText(epub, parse.rootfilePath)
         THEN fail("Invalid EPUB: Missing OPF file")
         ELSE LET basePath == SubSeq(parse.rootfilePath, 1,
                                     lastIndexOfSlash(parse.rootfilePath))
                  manifest == parseManifest(epub.opfDoc.items, basePath)
                  spine == parseSpine(epub.opfDoc)
                  tocHref == IF hasKey(manifest, spine.toc)
                             THEN Some(lookup(manifest, spine.toc).href) ELSE NULL
              IN [parse EXCEPT !.pc = IF truthyPath(tocHref) THEN "navigation"
                                      ELSE "cover",
                               !.basePath = basePath,
                               !.metadata = parseMetadata(epub.opfDoc),
                               !.manifest = manifest,
                               !.spine = spine,
                               !.tocHref = tocHref]
    /\ UNCHANGED <<epub, loop, pathVars, manifestVars, navVars, coverVars, spineVars,
                   htmlVars, pluginVars>>

\* lines 90-95: the Navigation stage
Navigation ==
    /\ parse # NULL
    /\ parse.pc = "navigation"
    /\ \E navPoints \in parseNavPoints(epub.ncxDoc) :
         parse' =
           IF readThrows(epub, parse.tocHref.value) THEN fail("read error")
           ELSE IF readsText(epub, parse.tocHref.value)
           THEN [parse EXCEPT !.pc = "cover", !.navPoints = navPoints]
           ELSE [parse EXCEPT !.pc = "cover"]
    /\ UNCHANGED <<epub, loop, pathVars, manifestVars, navVars, coverVars, spineVars,
                   htmlVars, pluginVars>>

\* Cover in a parser for which a package without a cover is an error
CoverRequired ==
    /\ parse # NULL
    /\ parse.pc = "cover"
    /\ LET coverPath == findCoverPath(epub.opfDoc, parse.manifest)
           next == IF Len(parse.manifest) = 0 THEN "return" ELSE "images"
       IN parse' =
            IF ~truthyPath(coverPath) THEN fail("Invalid EPUB: Missing cover")
            ELSE IF readThrows(epub, coverPath.value)
            THEN fail("read error")
            ELSE [parse EXCEPT
                    !.pc = next,
                    !.i = 1,
                    !.coverPath = coverPath,
                    !.coverData =
                        IF readsBytes(epub, coverPath.value)
                        THEN Some(bytesOf(epub, coverPath.value)) ELSE NULL]
    /\ UNCHANGED <<epub, loop, pathVars, manifestVars, navVars, coverVars, spineVars,
                   htmlVars, pluginVars>>

\* lines 97-107: the Cover stage
Cover ==
    /\ parse # NULL
    /\ parse.pc = "cover"
    /\ LET coverPath == findCoverPath(epub.opfDoc, parse.manifest)
           next == IF Len(parse.manifest) = 0 THEN "return" ELSE "images"
       IN parse' =
            IF truthyPath(coverPath) /\ readThrows(epub, coverPath.value)
            THEN fail("read error")
            ELSE [parse EXCEPT
                    !.pc = next,
                    !.i = 1,
                    !.coverPath = coverPath,
                    !.coverData =
                        IF truthyPath(coverPath) /\ readsBytes(epub, coverPath.value)
                        THEN Some(bytesOf(epub, coverPath.value)) ELSE NULL]
    /\ UNCHANGED <<epub, loop, pathVars, manifestVars, navVars, coverVars, spineVars,
                   htmlVars, pluginVars>>

\* ImageStep where a bare file name that is already a key is not overwritten
ImageStepFirstWins ==
    /\ parse # NULL
    /\ parse.pc = "images"
    /\ LET item == parse.manifest[parse.i]
           fileName == Last(split(item.href))
           stored == put(parse.resources, item.href, bytesOf(epub, item.href))
           next == afterImage(parse.manifest, parse.i)
       IN parse' =
            [parse EXCEPT
               !.pc = next.pc,
               !.i = next.i,
               !.resources =
                   IF /\ isImageType(item.mediaType)
                      /\ ~readThrows(epub, item.href)
                      /\ readsBytes(epub, item.href)
                   THEN IF Len(fileName) > 0 /\ fileName \notin DOMAIN stored
                        THEN put(stored, fileName, bytesOf(epub, item.href))
                        ELSE stored
                   ELSE @]
    /\ UNCHANGED <<epub, loop, pathVars, manifestVars, navVars, coverVars, spineVars,
                   htmlVars, pluginVars>>

\* lines 110-127: one turn of the loop that loads the resources
ImageStep ==
    /\ parse # NULL
    /\ parse.pc = "images"
    /\ LET item == parse.manifest[parse.i]
           fileName == Last(split(item.href))
           stored == put(parse.resources, item.href, bytesOf(epub, item.href))
           next == afterImage(parse.manifest, parse.i)
       IN parse' =
            [parse EXCEPT
               !.pc = next.pc,
               !.i = next.i,
               !.resources =
                   IF /\ isImageType(item.mediaType)
                      /\ ~readThrows(epub, item.href)
                      /\ readsBytes(epub, item.href)
                   THEN IF Len(fileName) > 0
                        THEN put(stored, fileName, bytesOf(epub, item.href))
                        ELSE stored
                   ELSE @]
    /\ UNCHANGED <<epub, loop, pathVars, manifestVars, navVars, coverVars, spineVars,
                   htmlVars, pluginVars>>

\* MarkupStep without the test of the media type (lines 131-132): the text
\* of every manifest item is stored
MarkupStepAnyType ==
    /\ parse # NULL
    /\ parse.pc = "markup"
    /\ LET item == parse.manifest[parse.i]
           next == afterMarkup(parse.manifest, parse.i)
       IN parse' =
            [parse EXCEPT
               !.pc = next.pc,
               !.i = next.i,
               !.content =
                   IF readThrows(epub, item.href)
                   THEN put(@, item.id, errorPlaceholder(item.href))
                   ELSE IF readsText(epub, item.href)
                   THEN put(@, item.id, processHtml(htmlOf(item.href)))
                   ELSE @]
    /\ UNCHANGED <<epub, loop, pathVars, manifestVars, navVars, coverVars, spineVars,
                   htmlVars, pluginVars>>

\* lines 130-144: one turn of the loop that loads the markup
MarkupStep ==
    /\ parse # NULL
    /\ parse.pc = "markup"
    /\ LET item == parse.manifest[parse.i]
           next == afterMarkup(parse.manifest, parse.i)
       IN parse' =
            [parse EXCEPT
               !.pc = next.pc,
               !.i = next.i,
               !.content =
                   IF ~isMarkupType(item.mediaType) THEN @
                   ELSE IF readThrows(epub, item.href)
                   THEN put(@, item.id, errorPlaceholder(item.href))
                   ELSE IF readsText(epub, item.href)
                   THEN put(@, item.id, processHtml(htmlOf(item.href)))
                   ELSE @]
    /\ UNCHANGED <<epub, loop, pathVars, manifestVars, navVars, coverVars, spineVars,
                   htmlVars, pluginVars>>

\* lines 146-156: the Document Model is returned
Return ==
    /\ parse # NULL
    /\ parse.pc = "return"
    /\ parse' = [parse EXCEPT
                   !.pc = "done",
                   !.result = Some([ metadata |-> parse.metadata,
                                     spine |-> parse.spine,
                                     manifest |-> parse.manifest,
                                     navPoints |-> parse.navPoints,
                                     coverPath |-> parse.coverPath,
                                     coverData |-> parse.coverData,
                                     content |-> parse.content,
                                     resources |-> parse.resources,
                                     basePath |-> parse.basePath ])]
    /\ UNCHANGED <<epub, loop, pathVars, manifestVars, navVars, coverVars, spineVars,
                   htmlVars, pluginVars>>

-----------------------------------------------------------------------------
(* SpecPath: resolveRelativePath on bounded arguments *)

RECURSIVE SeqsUpTo(_, _)
SeqsUpTo(S, n) ==
    IF n = 0 THEN {<<>>}
    ELSE LET shorter == SeqsUpTo(S, n - 1)
         IN shorter \cup {Append(q, x) : q \in shorter, x \in S}

\* segments a reference is made of
RefSegs == {<<>>, DotSeg, DotDotSeg, <<"OEBPS">>, <<"images">>, <<"cover.jpg">>}
\* segments a base path is made of
BaseSegs == {<<>>, <<"OEBPS">>, <<"text">>}

RefStrings == {join(q) : q \in SeqsUpTo(RefSegs, MaxRefSegs)}
BaseStrings == {join(q) : q \in SeqsUpTo(BaseSegs, MaxBaseSegs)}

PathIdle == pathIn = NULL /\ pathOut = NULL
ManifestIdle == opfIn = NULL /\ manifestOut = NULL
NavIdle == ncxIn = NULL /\ navOut = NULL
CoverIdle == coverIn = NULL /\ coverOut = NULL
SpineIdle == spineIn = NULL /\ spineOut = NULL
EpubIdle == epub = NULL /\ parse = NULL /\ loop = NULL
HtmlIdle == htmlIn = NULL /\ htmlOut = NULL
PluginIdle == library = NULL /\ storage = NULL /\ reader = NULL

InitPath ==
    /\ pathIn \in [relativePath : RefStrings, basePath : BaseStrings]
    /\ pathOut = NULL
    /\ ManifestIdle
    /\ NavIdle
    /\ CoverIdle
    /\ SpineIdle
    /\ EpubIdle
    /\ HtmlIdle
    /\ PluginIdle

Resolve ==
    /\ pathIn # NULL
    /\ pathOut = NULL
    /\ pathOut' = Some(resolveRelativePath(pathIn.relativePath, pathIn.basePath))
    /\ UNCHANGED <<pathIn, manifestVars, navVars, epubVars, coverVars, spineVars,
                   htmlVars, pluginVars>>

NextPath == Resolve

SpecPath == InitPath /\ [][NextPath]_vars

-----------------------------------------------------------------------------
(* Claims about resolveRelativePath *)

IsPlainSeg(p) == Len(p) > 0 /\ p # DotSeg /\ p # DotDotSeg

\* a directory path: '' or plain segments each followed by '/'
IsDirectory(d) ==
    \/ d = <<>>
    \/ /\ Last(d) = Slash
       /\ \A i \in 1..Len(Front(split(d))) : IsPlainSeg(split(d)[i])

\* the directory segments of a directory path
dirSegs(d) == IF d = <<>> THEN <<>> ELSE Front(split(d))

hasSeg(s, seg) == \E i \in 1..Len(split(s)) : split(s)[i] = seg

keptRefSegs(r) == SelectSeq(split(r), LAMBDA p : Len(p) > 0 /\ p # DotSeg)

\* C1: for a base directory d ending in '/' (or '') and a reference r with no
\* '..' segment and no leading '/', the result is d's segments followed by
\* r's non-empty, non-'.' segments, so it starts with d and holds no '.' or
\* '..' segment.
C1_ResolveKeepsBase ==
    (/\ pathOut.some
     /\ IsDirectory(pathIn.basePath)
     /\ ~hasSeg(pathIn.relativePath, DotDotSeg)
     /\ ~startsWith(pathIn.relativePath, <<Slash>>))
    => /\ pathOut.value
            = join(dirSegs(pathIn.basePath) \o keptRefSegs(pathIn.relativePath))
       /\ Len(keptRefSegs(pathIn.relativePath)) > 0
            => startsWith(pathOut.value, pathIn.basePath)
       /\ ~hasSeg(pathOut.value, DotSeg)
       /\ ~hasSeg(pathOut.value, DotDotSeg)

\* C2: a leading '..' segment of a reference removes exactly one trailing
\* directory of the base: resolveRelativePath('../' + x, p + '/' + q + '/')
\* is p + '/' + x for plain segments p, q and plain segments x; in particular
\* resolveRelativePath('../images/cover.jpg', 'OEBPS/text/') is
\* 'OEBPS/images/cover.jpg'.
C2_DotDotPopsOneDirectory ==
    (/\ pathOut.some
     /\ IsDirectory(pathIn.basePath)
     /\ Len(dirSegs(pathIn.basePath)) = 2
     /\ Len(split(pathIn.relativePath)) >= 2
     /\ Head(split(pathIn.relativePath)) = DotDotSeg
     /\ \A i \in 2..Len(split(pathIn.relativePath)) :
            IsPlainSeg(split(pathIn.relativePath)[i]))
    => pathOut.value
         = join(<<Head(dirSegs(pathIn.basePath))>> \o Tail(split(pathIn.relativePath)))

\* C20: a reference that starts with '/' resolves to itself without the
\* leading '/', whatever the base is: resolveRelativePath('/' + p, d) is p.
C20_LeadingSlashStripped ==
    (pathOut.some /\ startsWith(pathIn.relativePath, <<Slash>>))
    => pathOut.value = SubSeq(pathIn.relativePath, 2, Len(pathIn.relativePath))

\* resolveRelativePath('/OEBPS/cover.jpg', 'OEBPS/text/') has returned
C20_Witness ==
    /\ pathOut.some
    /\ pathIn.relativePath = <<Slash, "OEBPS", Slash, "cover.jpg">>
    /\ pathIn.basePath = <<"OEBPS", Slash, "text", Slash>>
    /\ pathOut.value = <<"OEBPS", Slash, "cover.jpg">>

-----------------------------------------------------------------------------
(* SpecManifest: parseManifest on bounded package documents *)


\* href attribute values of the item elements
HrefAttrs ==
    { <<>>, <<"ch1.html">>, <<Dot, Slash, "ch1.html">>,
      <<Dot, Dot, Slash, "ch1.html">>, <<Slash, "ch1.html">>,
      <<"text", Slash, "ch1.html">>, <<Slash, Slash, "ch1.html">> }

ManifestItemElems ==
    [ id : {NULL, Some(""), Some("a"), Some("b")},
      href : {NULL} \cup {Some(h) : h \in HrefAttrs},
      mediaType : {NULL, Some(XHTML)},
      properties : {NULL} ]

\* the directories a package document can sit in: basePath of parseEpub
ManifestBases == { <<>>, <<"OEBPS", Slash>>, <<"OEBPS", Slash, "text", Slash>> }

InitManifest ==
    /\ \E n \in 0..MaxItems :
         \E items \in [1..n -> ManifestItemElems], basePath \in ManifestBases :
            opfIn = [items |-> items, basePath |-> basePath]
    /\ manifestOut = NULL
    /\ PathIdle
    /\ NavIdle
    /\ CoverIdle
    /\ SpineIdle
    /\ EpubIdle
    /\ HtmlIdle
    /\ PluginIdle

ParseManifest ==
    /\ opfIn # NULL
    /\ manifestOut = NULL
    /\ manifestOut' = Some(parseManifest(opfIn.items, opfIn.basePath))
    /\ UNCHANGED <<opfIn, pathVars, navVars, epubVars, coverVars, spineVars,
                   htmlVars, pluginVars>>

NextManifest == ParseManifest

SpecManifest == InitManifest /\ [][NextManifest]_vars

\* C3: after parseManifest, for every package base directory (the empty one
\* included) and every href attribute value, each manifest item's href holds
\* no '.' segment, no '..' segment and does not start with '/'.
C3_ManifestHrefsNormalized ==
    manifestOut.some =>
        \A i \in 1..Len(manifestOut.value) :
            LET href == manifestOut.value[i].href
            IN /\ ~hasSeg(href, DotSeg)
               /\ ~hasSeg(href, DotDotSeg)
               /\ ~startsWith(href, <<Slash>>)

\* an item element that carries an id, an href and a media-type (an
\* attribute whose value is '' carries nothing)
isComplete(item) ==
    /\ truthyAttr(item.id)
    /\ truthyPath(item.href)
    /\ truthyPath(item.mediaType)

\* C18: the manifest parseManifest returns has one entry for each id that a
\* complete item element (one that carries id, href and media-type) has, and
\* the entry is the descriptor of the last such element in document order;
\* an incomplete element adds no entry and does not replace the entry of an
\* earlier complete element with the same id.
C18_LastCompleteItemWins ==
    manifestOut.some =>
        LET items == opfIn.items
            manifest == manifestOut.value
            complete == {i \in 1..Len(items) : isComplete(items[i])}
            lastOf(id) == CHOOSE i \in complete :
                             /\ items[i].id.value = id
                             /\ \A j \in complete : items[j].id.value = id => j <= i
        IN /\ {manifest[k].id : k \in 1..Len(manifest)}
                = {items[i].id.value : i \in complete}
           /\ \A k, l \in 1..Len(manifest) : manifest[k].id = manifest[l].id => k = l
           /\ \A k \in 1..Len(manifest) :
                 LET item == items[lastOf(manifest[k].id)]
                 IN manifest[k] =
                      [ id |-> item.id.value,
                        href |-> resolveRelativePath(item.href.value, opfIn.basePath),
                        mediaType |-> item.mediaType.value ]

\* two complete items with the same id and different hrefs were parsed
C18_Witness ==
    /\ manifestOut.some
    /\ Len(opfIn.items) = 2
    /\ isComplete(opfIn.items[1])
    /\ isComplete(opfIn.items[2])
    /\ opfIn.items[1].id = opfIn.items[2].id
    /\ resolveRelativePath(opfIn.items[1].href.value, opfIn.basePath)
          # resolveRelativePath(opfIn.items[2].href.value, opfIn.basePath)
    /\ Len(manifestOut.value) = 1

-----------------------------------------------------------------------------
(* SpecNav: parseNavPoints on bounded navigation documents *)

\* what a navPoint element carries besides its child navPoints
NavPointAttrs ==
    LET full(playOrder) == [ id |-> Some("np"), playOrder |-> playOrder,
                             label |-> Some("Chapter"),
                             content |-> Some(Some("ch1.html")) ]
    IN { full(Some("1")), full(Some("2")), full(Some("3")), full(NULL),
         full(Some("x")),
         [full(Some("1")) EXCEPT !.id = NULL],
         [full(Some("1")) EXCEPT !.label = NULL],
         [full(Some("1")) EXCEPT !.label = Some("")],
         [full(Some("1")) EXCEPT !.content = NULL],
         [full(Some("1")) EXCEPT !.content = Some(NULL)] }

(* A navigation document of n navPoint elements is drawn as the elements in *)
(* document order, each with its depth: the first is a child of navMap      *)
(* (depth 1) and each next one is at most one level deeper than the one     *)
(* before it.                                                               *)
IsPreorder(depths) ==
    /\ Len(depths) > 0 => depths[1] = 1
    /\ \A i \in 1..(Len(depths) - 1) : depths[i + 1] <= depths[i] + 1

\* the end of the subtree that starts at place 1 of nodes: the place before
\* the next node that is not deeper than depth
RECURSIVE subtreeEnd(_, _, _)
subtreeEnd(nodes, depth, i) ==
    IF i < Len(nodes) /\ nodes[i + 1].depth > depth
    THEN subtreeEnd(nodes, depth, i + 1)
    ELSE i

\* the forest of the nodes, whose roots are at depth
RECURSIVE navForest(_, _)
navForest(nodes, depth) ==
    IF Len(nodes) = 0 THEN <<>>
    ELSE LET end == subtreeEnd(nodes, depth, 1)
             a == nodes[1].attrs
         IN << [ id |-> a.id, playOrder |-> a.playOrder, label |-> a.label,
                 content |-> a.content,
                 kids |-> navForest(SubSeq(nodes, 2, end), depth + 1) ] >>
            \o navForest(SubSeq(nodes, end + 1, Len(nodes)), depth)

InitNav ==
    /\ \/ ncxIn = [navMap |-> NULL]
       \/ \E n \in 0..MaxNavPoints :
            \E depths \in [1..n -> 1..MaxNavPoints], attrs \in [1..n -> NavPointAttrs] :
               /\ IsPreorder(depths)
               /\ ncxIn = [navMap |->
                            Some(navForest([i \in 1..n |->
                                              [depth |-> depths[i], attrs |-> attrs[i]]],
                                           1))]
    /\ navOut = NULL
    /\ PathIdle
    /\ ManifestIdle
    /\ CoverIdle
    /\ SpineIdle
    /\ EpubIdle
    /\ HtmlIdle
    /\ PluginIdle

ParseNavPoints ==
    /\ ncxIn # NULL
    /\ navOut = NULL
    /\ \E navPoints \in parseNavPoints(ncxIn) : navOut' = Some(navPoints)
    /\ UNCHANGED <<ncxIn, pathVars, manifestVars, epubVars, coverVars, spineVars,
                   htmlVars, pluginVars>>

NextNav == ParseNavPoints

SpecNav == InitNav /\ [][NextNav]_vars

\* every NavPoint of a forest, nested ones included, with its depth
RECURSIVE allNavPoints(_, _)
allNavPoints(forest, depth) ==
    IF Len(forest) = 0 THEN <<>>
    ELSE <<[navPoint |-> Head(forest), depth |-> depth]>>
         \o allNavPoints(Head(forest).children, depth + 1)
         \o allNavPoints(Tail(forest), depth)

\* C10: the top-level forest holds exactly one NavPoint for each valid
\* navPoint element that is a direct child of navMap and none for a nested
\* element: every element appears at most once in the whole forest, at the
\* depth it has in the source.
C10_TopLevelIsDirectChildren ==
    (navOut.some /\ ncxIn.navMap.some) =>
        LET top == navOut.value
            all == allNavPoints(top, 1)
            direct == ncxIn.navMap.value
        IN /\ \A i \in 1..Len(top) : Len(top[i].elem) = 1
           /\ \A i \in 1..Len(direct) :
                 ~navPointDropped(direct[i])
                 => Cardinality({j \in 1..Len(top) : top[j].elem = <<i>>}) = 1
           /\ \A i, j \in 1..Len(all) :
                 all[i].navPoint.elem = all[j].navPoint.elem => i = j
           /\ \A i \in 1..Len(all) : Len(all[i].navPoint.elem) = all[i].depth

\* the navPoint element at a place of the source document
RECURSIVE elementAt(_, _)
elementAt(kids, elem) ==
    IF Len(elem) = 1 THEN kids[elem[1]]
    ELSE elementAt(kids[elem[1]].kids, Tail(elem))

\* a.order < b.order as JavaScript reads it: false when either is NaN
orderBefore(a, b) ==
    /\ ~a.order.nan
    /\ ~b.order.nan
    /\ a.order.n < b.order.n

\* C11: the top-level forest returned by parseNavPoints is ascending by
\* order whatever the source order was (no NavPoint stands before one of a
\* smaller order), and the children of every NavPoint, at every depth, stand
\* in the order of their elements in the source document.
C11_TopLevelSortedChildrenInSourceOrder ==
    navOut.some =>
        LET top == navOut.value
            all == allNavPoints(top, 1)
        IN /\ \A i, j \in 1..Len(top) : i < j => ~orderBefore(top[j], top[i])
           /\ \A k \in 1..Len(all) :
                 LET children == all[k].navPoint.children
                 IN \A i, j \in 1..Len(children) :
                       i < j => Last(children[i].elem) < Last(children[j].elem)

\* C12: every NavPoint parseNavPoint yields comes from an element that has
\* an id attribute that is not empty, a label of its own whose text is not
\* empty, and a content element of its own that carries a src attribute.
C12_OnlyCompleteElementsYieldNavPoints ==
    (navOut.some /\ ncxIn.navMap.some) =>
        LET all == allNavPoints(navOut.value, 1)
        IN \A k \in 1..Len(all) :
              LET element == elementAt(ncxIn.navMap.value, all[k].navPoint.elem)
              IN /\ truthyAttr(element.id)
                 /\ truthyAttr(element.label)
                 /\ element.content.some
                 /\ element.content.value.some

\* the integer a playOrder attribute value denotes, 0 for one that is not
\* numeric
integerValue(playOrder) ==
    CASE playOrder = "1" -> 1
      [] playOrder = "2" -> 2
      [] playOrder = "3" -> 3
      [] OTHER -> 0

\* C13: the order of every NavPoint is the integer value of its element's
\* playOrder attribute, and 0 when the attribute is absent or not numeric;
\* so no order is NaN and the comparator of the top-level sort is consistent.
C13_OrderIsInteger ==
    (navOut.some /\ ncxIn.navMap.some) =>
        LET all == allNavPoints(navOut.value, 1)
        IN /\ \A k \in 1..Len(all) :
                 LET element == elementAt(ncxIn.navMap.value, all[k].navPoint.elem)
                 IN all[k].navPoint.order =
                       IF element.playOrder.some
                       THEN Num(integerValue(element.playOrder.value))
                       ELSE Num(0)
           /\ consistentComparator(navOut.value)

\* C22: no NavPoint of the returned forest, nested or at top level, comes
\* from a descendant of a navPoint element that was dropped.
C22_DescendantsOfDroppedNotAttempted ==
    (navOut.some /\ ncxIn.navMap.some) =>
        LET all == allNavPoints(navOut.value, 1)
        IN \A k \in 1..Len(all) :
              LET elem == all[k].navPoint.elem
              IN \A n \in 1..(Len(elem) - 1) :
                    ~navPointDropped(elementAt(ncxIn.navMap.value, SubSeq(elem, 1, n)))

-----------------------------------------------------------------------------
(* SpecCover: findCoverPath on bounded package documents *)

\* the item elements of the package documents: each id has its own href
CoverItemElems ==
    { [ id |-> Some("cover"), href |-> Some(<<"c.jpg">>),
        mediaType |-> Some(JPEG), properties |-> NULL ],
      [ id |-> Some("cover"), href |-> Some(<<"title.xhtml">>),
        mediaType |-> Some(XHTML), properties |-> NULL ],
      [ id |-> Some("cover-image"), href |-> Some(<<"ci.jpg">>),
        mediaType |-> Some(JPEG), properties |-> NULL ],
      [ id |-> Some("img1"), href |-> Some(<<"images", Slash, "1.jpg">>),
        mediaType |-> Some(JPEG), properties |-> Some("cover-image") ],
      [ id |-> Some("img1"), href |-> Some(<<"images", Slash, "1.jpg">>),
        mediaType |-> Some(JPEG), properties |-> NULL ],
      [ id |-> Some("img2"), href |-> NULL,
        mediaType |-> Some(JPEG), properties |-> Some("cover-image") ],
      [ id |-> Some("Cover1"), href |-> Some(<<"x.png">>),
        mediaType |-> Some(PNG), properties |-> NULL ],
      [ id |-> Some("fig"), href |-> Some(<<"images", Slash, "Cover.png">>),
        mediaType |-> Some(PNG), properties |-> NULL ],
      [ id |-> Some("ch1"), href |-> Some(<<"covers", Slash, "ch1.html">>),
        mediaType |-> Some(XHTML), properties |-> NULL ] }

\* the first meta[name="cover"] element: none, one without content, one
\* that names an image, a markup item, an id the manifest may not have
CoverMetas ==
    {NULL, Some(NULL), Some(Some("img1")), Some(Some("ch1")), Some(Some("none"))}

InitCover ==
    /\ \E n \in 0..MaxItems :
         \E items \in [1..n -> CoverItemElems], coverMeta \in CoverMetas :
            coverIn = [ opfDoc |-> [items |-> items, coverMeta |-> coverMeta],
                        manifest |-> parseManifest(items, <<>>) ]
    /\ coverOut = NULL
    /\ PathIdle
    /\ ManifestIdle
    /\ NavIdle
    /\ SpineIdle
    /\ EpubIdle
    /\ HtmlIdle
    /\ PluginIdle

FindCoverPath ==
    /\ coverIn # NULL
    /\ coverOut = NULL
    /\ coverOut' = Some(findCoverPath(coverIn.opfDoc, coverIn.manifest))
    /\ UNCHANGED <<coverIn, pathVars, manifestVars, navVars, spineVars, epubVars,
                   htmlVars, pluginVars>>

NextCover == FindCoverPath

SpecCover == InitCover /\ [][NextCover]_vars

\* Strategies 1 and 2 of findCoverPath find nothing
NoMetaNoCoverId ==
    LET manifest == coverIn.manifest
        meta == coverIn.opfDoc.coverMeta
    IN /\ ~(meta.some /\ meta.value.some /\ hasKey(manifest, meta.value.value))
       /\ ~(hasKey(manifest, "cover") /\ isImageType(lookup(manifest, "cover").mediaType))
       /\ ~(/\ hasKey(manifest, "cover-image")
            /\ isImageType(lookup(manifest, "cover-image").mediaType))

-----------------------------------------------------------------------------
(* SpecSpine: parseSpine on bounded package documents *)

\* idref attributes of the itemref elements, toc attributes of the spine
IdrefAttrs == {NULL, Some(""), Some("ch1"), Some("ch2")}
TocAttrs == {NULL, Some(""), Some("ncx")}

InitSpine ==
    /\ \/ spineIn = [spine |-> NULL]
       \/ \E n \in 0..MaxItemrefs :
            \E itemrefs \in [1..n -> IdrefAttrs], toc \in TocAttrs :
               spineIn = [spine |-> Some([toc |-> toc, itemrefs |-> itemrefs])]
    /\ spineOut = NULL
    /\ PathIdle
    /\ ManifestIdle
    /\ NavIdle
    /\ CoverIdle
    /\ EpubIdle
    /\ HtmlIdle
    /\ PluginIdle

ParseSpine ==
    /\ spineIn # NULL
    /\ spineOut = NULL
    /\ spineOut' = Some(parseSpine(spineIn))
    /\ UNCHANGED <<spineIn, pathVars, manifestVars, navVars, coverVars, epubVars,
                   htmlVars, pluginVars>>

NextSpine == ParseSpine

SpecSpine == InitSpine /\ [][NextSpine]_vars

\* C19: spine.items is the sequence of the idref values of the itemref
\* elements in document order, duplicates kept, an itemref without an idref
\* (or with an empty one) passed over; spine.toc is the toc attribute of the
\* spine element, and '' when the attribute or the element is absent.
C19_SpineInDocumentOrder ==
    spineOut.some =>
        IF spineIn.spine.some
        THEN LET spineEl == spineIn.spine.value
                 kept == SelectSeq(spineEl.itemrefs, LAMBDA a : a.some /\ a.value # "")
             IN /\ spineOut.value.items = [i \in 1..Len(kept) |-> kept[i].value]
                /\ spineOut.value.toc = IF spineEl.toc.some THEN spineEl.toc.value ELSE ""
        ELSE /\ spineOut.value.items = <<>>
             /\ spineOut.value.toc = ""

\* a spine with a toc attribute, whose itemrefs name one id twice around an
\* itemref without idref, was parsed
C19_Witness ==
    /\ spineOut.some
    /\ spineIn.spine = Some([toc |-> Some("ncx"),
                             itemrefs |-> <<Some("ch1"), NULL, Some("ch1")>>])
    /\ spineOut.value = [items |-> <<"ch1", "ch1">>, toc |-> "ncx"]

-----------------------------------------------------------------------------
(* SpecHtml: processHtml on bounded markup documents *)

\* the references of the img and link elements: none, '', references into
\* the archive (one of them into a directory named 'httpdocs'), web URLs
RefAttrs ==
    { NULL, Some(<<>>),
      Some(<<"images", Slash, "fig.png">>),
      Some(<<Dot, Dot, Slash, "fig.png">>),
      Some(<<"httpdocs", Slash, "fig.png">>),
      Some(<<"http:", Slash, Slash, "example.org", Slash, "a.png">>),
      Some(<<"https:", Slash, Slash, "example.org", Slash, "a.png">>) }

ImgElems == [src : RefAttrs, dataOriginalSrc : {NULL}, classList : {{}, {"figure"}}]

LinkElems == [href : RefAttrs, dataOriginalHref : {NULL}]

InitHtml ==
    /\ \E n \in 0..MaxImgs, m \in 0..1 :
         \E imgs \in [1..n -> ImgElems], links \in [1..m -> LinkElems] :
            htmlIn = [file |-> <<"ch1.html">>, imgs |-> imgs, links |-> links]
    /\ htmlOut = NULL
    /\ PathIdle
    /\ ManifestIdle
    /\ NavIdle
    /\ CoverIdle
    /\ SpineIdle
    /\ EpubIdle
    /\ PluginIdle

ProcessHtml ==
    /\ htmlIn # NULL
    /\ htmlOut = NULL
    /\ htmlOut' = Some(processHtml(htmlIn))
    /\ UNCHANGED <<htmlIn, pathVars, manifestVars, navVars, coverVars, spineVars,
                   epubVars, pluginVars>>

NextHtml == ProcessHtml

SpecHtml == InitHtml /\ [][NextHtml]_vars

\* a reference that is an absolute web URL: 'http://...' or 'https://...'
isWebUrl(ref) ==
    /\ Len(ref) >= 3
    /\ ref[1] \in {"http:", "https:"}
    /\ ref[2] = Slash
    /\ ref[3] = Slash

\* C23: processHtml leaves the src of every img as it was; an img whose src
\* is a reference that is not an absolute web URL (one into the archive, also
\* one whose first segment begins with 'http') gets data-original-src equal
\* to its src and the class 'epub-image'; an img whose src is an absolute web
\* URL gets neither; stylesheet links get data-original-href by the same
\* rule.
C23_RelativeReferencesAnnotated ==
    htmlOut.some =>
        /\ Len(htmlOut.value.imgs) = Len(htmlIn.imgs)
        /\ Len(htmlOut.value.links) = Len(htmlIn.links)
        /\ \A i \in 1..Len(htmlIn.imgs) :
              LET img == htmlIn.imgs[i]
                  out == htmlOut.value.imgs[i]
              IN /\ out.src = img.src
                 /\ (truthyPath(img.src) /\ ~isWebUrl(img.src.value))
                       => /\ out.dataOriginalSrc = img.src
                          /\ out.classList = img.classList \cup {"epub-image"}
                 /\ (truthyPath(img.src) /\ isWebUrl(img.src.value))
                       => /\ out.dataOriginalSrc = NULL
                          /\ out.classList = img.classList
        /\ \A i \in 1..Len(htmlIn.links) :
              LET link == htmlIn.links[i]
                  out == htmlOut.value.links[i]
              IN /\ out.href = link.href
                 /\ (truthyPath(link.href) /\ ~isWebUrl(link.href.value))
                       => out.dataOriginalHref = link.href
                 /\ (truthyPath(link.href) /\ isWebUrl(link.href.value))
                       => out.dataOriginalHref = NULL

-----------------------------------------------------------------------------
(* Spec: parseEpub on bounded archives *)

itemElem(id, href, mediaType, properties) ==
    [id |-> Some(id), href |-> Some(href), mediaType |-> Some(mediaType),
     properties |-> properties]

\* the item elements of the package documents
OpfItemElems ==
    { itemElem("ch1", <<"ch1.html">>, XHTML, NULL),
      itemElem("ch2", <<"text", Slash, "ch2.html">>, HTML, NULL),
      itemElem("ncx", <<"toc.ncx">>, NCX, NULL),
      itemElem("img1", <<"images", Slash, "cover.jpg">>, JPEG, Some("cover-image")),
      itemElem("img2", <<"cover.jpg">>, JPEG, NULL),
      itemElem("fig", <<"fig.png">>, PNG, NULL) }

SpineElems ==
    { NULL,
      Some([toc |-> NULL, itemrefs |-> <<Some("ch1")>>]),
      Some([toc |-> Some("ncx"), itemrefs |-> <<Some("ch1"), NULL, Some("ch1")>>]) }

OpfMetadata == Some([title |-> "A Book", creator |-> "", date |-> "2020"])

\* the navigation document of the archives
NcxDoc ==
    LET np(id, playOrder, kids) ==
            [ id |-> Some(id), playOrder |-> Some(playOrder),
              label |-> Some("Chapter"), content |-> Some(Some("ch1.html")),
              kids |-> kids ]
    IN [navMap |-> Some(<< np("n2", "2", <<>>), np("n1", "1", <<>>) >>)]

\* where the container descriptor can say the package document is
RootfilePaths == { <<"content.opf">>, <<"OEBPS", Slash, "content.opf">> }

dirOf(path) == SubSeq(path, 1, lastIndexOfSlash(path))

\* the paths parseEpub reads for the items of a package document at rootPath
readPaths(opfDoc, rootPath) ==
    LET manifest == parseManifest(opfDoc.items, dirOf(rootPath))
    IN {manifest[i].href : i \in 1..Len(manifest)}

\* the paths the hrefs of the items name, relative to the package document
namedPaths(opfDoc, rootPath) ==
    {dirOf(rootPath) \o opfDoc.items[i].href.value : i \in 1..Len(opfDoc.items)}

EntryStates == {"absent", "empty", "data", "corrupt"}

\* the states of the entries a package document refers to: any state where
\* parseEpub reads, and where it does not read, the files the hrefs name are
\* all there or all missing
FileStates(opfDoc, rootPath) ==
    LET reads == readPaths(opfDoc, rootPath)
        named == namedPaths(opfDoc, rootPath) \ reads
    IN { f @@ [p \in named |-> n] : f \in [reads -> EntryStates], n \in {"absent", "data"} }

archive(openable, containerState, rootfile, rootPath, opfState, opfDoc, files) ==
    [ openable |-> openable,
      entries |-> (ContainerPath :> containerState) @@ (rootPath :> opfState) @@ files,
      containerDoc |-> [rootfile |-> rootfile],
      opfDoc |-> opfDoc,
      ncxDoc |-> NcxDoc ]

DefaultRoot == <<"content.opf">>

DefaultOpf ==
    [ items |-> << itemElem("ch1", <<"ch1.html">>, XHTML, NULL),
                   itemElem("img2", <<"cover.jpg">>, JPEG, NULL) >>,
      spine |-> Some([toc |-> NULL, itemrefs |-> <<Some("ch1")>>]),
      coverMeta |-> NULL,
      metadata |-> OpfMetadata ]

DefaultFiles == [p \in {<<"ch1.html">>, <<"cover.jpg">>} |-> "data"]

\* The archives parseEpub is run on: one that cannot be opened, those whose
\* container descriptor cannot be read, those whose descriptor names no
\* package document, those whose package document cannot be read, and those
\* with a package document, over the states of the entries it refers to.
IsArchive(zip) ==
    \/ zip = archive(FALSE, "data", Some(Some(DefaultRoot)), DefaultRoot, "data",
                     DefaultOpf, DefaultFiles)
    \/ \E c \in {"absent", "empty", "corrupt"} :
         zip = archive(TRUE, c, Some(Some(DefaultRoot)), DefaultRoot, "data",
                       DefaultOpf, DefaultFiles)
    \/ \E r \in {NULL, Some(NULL), Some(Some(<<>>))} :
         zip = archive(TRUE, "data", r, DefaultRoot, "data", DefaultOpf, DefaultFiles)
    \/ \E root \in RootfilePaths, o \in {"absent", "empty", "corrupt"} :
         zip = archive(TRUE, "data", Some(Some(root)), root, o, DefaultOpf, DefaultFiles)
    \/ \E root \in RootfilePaths, n \in 0..MaxItems :
         \E items \in [1..n -> OpfItemElems], spine \in SpineElems,
            coverMeta \in {NULL, Some(Some("img2"))} :
            LET doc == [ items |-> items, spine |-> spine, coverMeta |-> coverMeta,
                         metadata |-> OpfMetadata ]
            IN \E files \in FileStates(doc, root) :
                  zip = archive(TRUE, "data", Some(Some(root)), root, "data", doc, files)

\* the locals of a parseEpub invocation as it is entered
invocation ==
    [ pc |-> "open", error |-> "", rootfilePath |-> <<>>,
      basePath |-> <<>>, metadata |-> {}, manifest |-> <<>>,
      spine |-> [items |-> <<>>, toc |-> ""], tocHref |-> NULL,
      navPoints |-> <<>>, coverPath |-> NULL, coverData |-> NULL,
      content |-> EmptyRecord, resources |-> EmptyRecord, i |-> 1,
      result |-> NULL ]

InitEpub ==
    /\ IsArchive(epub)
    /\ parse = invocation
    /\ loop = NULL
    /\ PathIdle
    /\ ManifestIdle
    /\ NavIdle
    /\ CoverIdle
    /\ SpineIdle
    /\ HtmlIdle
    /\ PluginIdle

Init == InitEpub

Next ==
    \/ Open
    \/ Container
    \/ Package
    \/ Navigation
    \/ Cover
    \/ ImageStep
    \/ MarkupStep
    \/ Return

Spec == Init /\ [][Next]_vars

-----------------------------------------------------------------------------
(* SpecCallers: parseEpub called again, and by two callers at a time *)

(* The callers await parseEpub(data) (main.ts 222, libraryManager.ts 216,   *)
(* the reader view).  loop holds what is outside the running invocation:    *)
(*   archives    the two archives the callers hold                          *)
(*   phase       "first": archives[1] is parsed; "second": then             *)
(*               archives[2]; "again": then archives[1] once more;          *)
(*               "interleaved": then both at a time                         *)
(*   returned    the locals the runs of the first three phases ended with   *)
(*   waiting     NULL, or Some(the archive and the locals of the invocation *)
(*               that is suspended at an await)                             *)
(*   current     the caller whose invocation is running, 1 or 2             *)
(*   overlapped  the event loop has left one invocation for the other       *)
(*               while both were under way                                  *)

\* the package documents of the callers' archives: markup and a cover found
\* by name; a navigation document and a cover found by properties; markup
\* and an image that is no cover
CallerOpfs ==
    { DefaultOpf,
      [ items |-> << itemElem("ncx", <<"toc.ncx">>, NCX, NULL),
                     itemElem("img1", <<"images", Slash, "cover.jpg">>, JPEG,
                              Some("cover-image")) >>,
        spine |-> Some([toc |-> Some("ncx"), itemrefs |-> <<Some("ch1")>>]),
        coverMeta |-> NULL,
        metadata |-> OpfMetadata ],
      [ items |-> << itemElem("ch2", <<"text", Slash, "ch2.html">>, HTML, NULL),
                     itemElem("fig", <<"fig.png">>, PNG, NULL) >>,
        spine |-> NULL,
        coverMeta |-> NULL,
        metadata |-> OpfMetadata ] }

\* the archives of the callers: one that cannot be opened, one without a
\* container descriptor, and those with a package document whose files are
\* all there, all missing or all damaged
CallerArchives ==
    { archive(FALSE, "data", Some(Some(DefaultRoot)), DefaultRoot, "data",
              DefaultOpf, DefaultFiles),
      archive(TRUE, "absent", Some(Some(DefaultRoot)), DefaultRoot, "data",
              DefaultOpf, DefaultFiles) }
    \cup { archive(TRUE, "data", Some(Some(root)), root, "data", doc,
                   [p \in readPaths(doc, root) \cup namedPaths(doc, root) |-> s]) :
             root \in RootfilePaths, doc \in CallerOpfs,
             s \in {"data", "absent", "corrupt"} }

InitCallers ==
    /\ \E first \in CallerArchives, second \in CallerArchives :
          /\ loop = [ archives |-> <<first, second>>, phase |-> "first",
                      returned |-> <<>>, waiting |-> NULL, current |-> 1,
                      overlapped |-> FALSE ]
          /\ epub = first
    /\ parse = invocation
    /\ PathIdle
    /\ ManifestIdle
    /\ NavIdle
    /\ CoverIdle
    /\ SpineIdle
    /\ HtmlIdle
    /\ PluginIdle

\* Call in a program that keeps the locals of parseEpub at module level: the
\* next invocation finds what the last one left
CallKeepingLocals ==
    /\ loop # NULL
    /\ loop.phase \in {"first", "second"}
    /\ parse.pc \in {"done", "failed"}
    /\ epub' = loop.archives[IF loop.phase = "first" THEN 2 ELSE 1]
    /\ parse' = [parse EXCEPT !.pc = "open", !.error = ""]
    /\ loop' = [loop EXCEPT !.phase = IF loop.phase = "first" THEN "second" ELSE "again",
                            !.returned = Append(@, parse)]
    /\ UNCHANGED <<pathVars, manifestVars, navVars, coverVars, spineVars,
                   htmlVars, pluginVars>>

\* a caller whose parseEpub call has returned or thrown calls it on the next
\* archive: the second one, then the first one again
Call ==
    /\ loop # NULL
    /\ loop.phase \in {"first", "second"}
    /\ parse.pc \in {"done", "failed"}
    /\ epub' = loop.archives[IF loop.phase = "first" THEN 2 ELSE 1]
    /\ parse' = invocation
    /\ loop' = [loop EXCEPT !.phase = IF loop.phase = "first" THEN "second" ELSE "again",
                            !.returned = Append(@, parse)]
    /\ UNCHANGED <<pathVars, manifestVars, navVars, coverVars, spineVars,
                   htmlVars, pluginVars>>

\* two callers call parseEpub, one on each archive, before either call has
\* got past its first await
CallBoth ==
    /\ loop # NULL
    /\ loop.phase = "again"
    /\ parse.pc \in {"done", "failed"}
    /\ epub' = loop.archives[1]
    /\ parse' = invocation
    /\ loop' = [loop EXCEPT !.phase = "interleaved",
                            !.returned = Append(@, parse),
                            !.waiting = Some([epub |-> loop.archives[2],
                                              parse |-> invocation]),
                            !.current = 1]
    /\ UNCHANGED <<pathVars, manifestVars, navVars, coverVars, spineVars,
                   htmlVars, pluginVars>>

\* Switch in a program that keeps content and resources at module level: the
\* invocation that is resumed finds what the other one has stored
SwitchSharingRecords ==
    /\ loop # NULL
    /\ loop.waiting.some
    /\ loop.waiting.value.parse.pc \notin {"done", "failed"}
    /\ epub' = loop.waiting.value.epub
    /\ parse' = [loop.waiting.value.parse EXCEPT !.content = parse.content,
                                                 !.resources = parse.resources]
    /\ loop' = [loop EXCEPT
                  !.waiting = Some([epub |-> epub, parse |-> parse]),
                  !.current = 3 - @,
                  !.overlapped = @ \/ (/\ parse.pc \notin {"open", "done", "failed"}
                                       /\ loop.waiting.value.parse.pc # "open")]
    /\ UNCHANGED <<pathVars, manifestVars, navVars, coverVars, spineVars,
                   htmlVars, pluginVars>>

\* the awaits of parseEpub (lines 52, 55, 67, 91, 102, 115, 136): while the
\* running invocation waits for the archive, the event loop resumes the other
Switch ==
    /\ loop # NULL
    /\ loop.waiting.some
    /\ loop.waiting.value.parse.pc \notin {"done", "failed"}
    /\ epub' = loop.waiting.value.epub
    /\ parse' = loop.waiting.value.parse
    /\ loop' = [loop EXCEPT
                  !.waiting = Some([epub |-> epub, parse |-> parse]),
                  !.current = 3 - @,
                  !.overlapped = @ \/ (/\ parse.pc \notin {"open", "done", "failed"}
                                       /\ loop.waiting.value.parse.pc # "open")]
    /\ UNCHANGED <<pathVars, manifestVars, navVars, coverVars, spineVars,
                   htmlVars, pluginVars>>

NextCallers ==
    \/ Open
    \/ Container
    \/ Package
    \/ Navigation
    \/ Cover
    \/ ImageStep
    \/ MarkupStep
    \/ Return
    \/ Call
    \/ CallBoth
    \/ Switch

SpecCallers == InitCallers /\ [][NextCallers]_vars

-----------------------------------------------------------------------------
(* Claims about parseEpub *)

\* nothing of the Package, Navigation, Cover or Assembly stages was produced
NothingProduced ==
    /\ parse.metadata = {}
    /\ Len(parse.manifest) = 0
    /\ Len(parse.spine.items) = 0
    /\ Len(parse.navPoints) = 0
    /\ ~parse.coverPath.some
    /\ ~parse.coverData.some
    /\ DOMAIN parse.content = {}
    /\ DOMAIN parse.resources = {}
    /\ ~parse.result.some

\* C4: if the archive has no 'META-INF/container.xml' entry, parseEpub fails
\* with the missing-container error and returns no Document Model: no stage
\* after the Container stage runs and nothing is produced.
C4_MissingContainerIsFatal ==
    (epub.openable /\ entryState(epub, ContainerPath) = "absent") =>
        /\ parse.pc \in {"open", "container", "failed"}
        /\ parse.pc = "failed" => parse.error = "Invalid EPUB: Missing container.xml"
        /\ NothingProduced

C4_Witness ==
    /\ entryState(epub, ContainerPath) = "absent"
    /\ \E p \in DOMAIN epub.entries : epub.entries[p] = "data"
    /\ parse.pc = "failed"
    /\ parse.error = "Invalid EPUB: Missing container.xml"

\* the first rootfile element carries a full-path that is not empty
HasRootfilePath ==
    epub.containerDoc.rootfile.some /\ truthyPath(epub.containerDoc.rootfile.value)

\* the archive has the package document at the declared path
HasPackageDocument ==
    /\ HasRootfilePath
    /\ entryState(epub, epub.containerDoc.rootfile.value.value) # "absent"

\* C5: parseEpub returns a Document Model only if the first rootfile element
\* carries a non-empty full-path and the archive has a package document at
\* that path; otherwise the parse fails (with the rootfile or the
\* missing-package error when the descriptor itself was read) before any
\* metadata, manifest, spine, navigation, cover or content is produced.
C5_RootfileAndPackageRequired ==
    /\ parse.result.some => HasPackageDocument
    /\ ~HasPackageDocument =>
          /\ parse.pc \in {"open", "container", "package", "failed"}
          /\ NothingProduced
          /\ (parse.pc = "failed" /\ epub.openable /\ readsText(epub, ContainerPath))
                => parse.error = IF HasRootfilePath
                                 THEN "Invalid EPUB: Missing OPF file"
                                 ELSE "Invalid EPUB: Unable to find rootfile path"

C5_Witness ==
    /\ HasRootfilePath
    /\ ~HasPackageDocument
    /\ Len(epub.opfDoc.items) > 0
    /\ parse.pc = "failed"
    /\ parse.error = "Invalid EPUB: Missing OPF file"

\* the Container and Package stages succeed on the archive
PackageStageSucceeds ==
    /\ epub.openable
    /\ readsText(epub, ContainerPath)
    /\ HasRootfilePath
    /\ readsText(epub, epub.containerDoc.rootfile.value.value)

\* C6: once the Container and Package stages have succeeded, no failure in
\* the Navigation, Cover or Assembly stages makes the parse fail: whatever
\* the state of the navigation document, the cover, an image or a markup
\* entry, parseEpub goes on to return a Document Model.
C6_LaterFailuresAreNotFatal ==
    PackageStageSucceeds => parse.pc # "failed"

\* C7: after a parse, every markup-typed manifest item has an entry in
\* content, and when its text could not be read (the entry is missing,
\* empty or cannot be decompressed) the entry is the error placeholder.
C7_PlaceholderOnReadFailure ==
    parse.result.some =>
        \A i \in 1..Len(parse.result.value.manifest) :
            LET item == parse.result.value.manifest[i]
            IN isMarkupType(item.mediaType) =>
                 /\ item.id \in DOMAIN parse.result.value.content
                 /\ ~readsText(epub, item.href) =>
                       parse.result.value.content[item.id] = errorPlaceholder(item.href)

\* a well-formed minimal package: one markup item whose file is in the
\* archive where its href names it relative to the package document, one
\* spine entry, no navigation resource, no cover
MinimalPackage ==
    /\ PackageStageSucceeds
    /\ Len(epub.opfDoc.items) = 1
    /\ isMarkupType(epub.opfDoc.items[1].mediaType.value)
    /\ entryState(epub, dirOf(epub.containerDoc.rootfile.value.value)
                          \o epub.opfDoc.items[1].href.value) = "data"
    /\ epub.opfDoc.spine = Some([toc |-> NULL, itemrefs |-> <<epub.opfDoc.items[1].id>>])
    /\ ~epub.opfDoc.coverMeta.some

\* C8: parsing a well-formed minimal package yields a Document Model with
\* exactly one markup entry, an empty nav forest and an absent cover, whether
\* the package document sits at the archive root or in a subdirectory.
C8_MinimalPackage ==
    (MinimalPackage /\ parse.pc \in {"done", "failed"}) =>
        /\ parse.result.some
        /\ Cardinality(DOMAIN parse.result.value.content) = 1
        /\ Len(parse.result.value.navPoints) = 0
        /\ ~parse.result.value.coverPath.some
        /\ ~parse.result.value.coverData.some

\* the stage an invocation is in: the archive is being opened, Container,
\* Package, Navigation, Cover, Assembly, and over
stage(pc) ==
    CASE pc = "open" -> 0
      [] pc = "container" -> 1
      [] pc = "package" -> 2
      [] pc = "navigation" -> 3
      [] pc = "cover" -> 4
      [] pc \in {"images", "markup", "return"} -> 5
      [] pc \in {"done", "failed"} -> 6

\* the places of the Assembly stage, in the order they are passed
assemblyPlace(pc) ==
    CASE pc = "images" -> 1
      [] pc = "markup" -> 2
      [] pc = "return" -> 3

Terminated == parse.pc \in {"done", "failed"}

\* a step of the invocation moves to a later stage, or goes on inside the
\* Assembly stage to the next item or the next loop
StageStep ==
    /\ ~Terminated
    /\ \/ stage(parse'.pc) > stage(parse.pc)
       \/ /\ stage(parse.pc) = 5
          /\ stage(parse'.pc) = 5
          /\ \/ assemblyPlace(parse'.pc) > assemblyPlace(parse.pc)
             \/ /\ parse'.pc = parse.pc
                /\ parse'.i > parse.i
    /\ parse.pc = "open" => parse'.pc \in {"container", "failed"}
    /\ parse.pc = "container" => parse'.pc \in {"package", "failed"}
    /\ parse.pc = "package" => parse'.pc \in {"navigation", "cover", "failed"}
    /\ parse'.pc = "navigation" => hasKey(parse'.manifest, parse'.spine.toc)
    /\ parse.pc = "navigation" => parse'.pc \in {"cover", "failed"}
    /\ parse.pc = "cover" => parse'.pc \in {"images", "return", "failed"}
    /\ stage(parse.pc) = 5 => parse'.pc # "failed"

\* C15: every step of a parseEpub run goes forward in the order Container,
\* Package, Navigation, Cover, Assembly (Navigation only when the spine
\* names an id the manifest has): no stage is entered a second time, none is
\* gone back to, nothing is done again, each loop of the Assembly stage
\* visits each manifest item once; a run that is over has either failed or
\* returned a Document Model, never both, and takes no further step.
C15_LinearPipeline ==
    /\ [][StageStep]_vars
    /\ [](parse.pc \in {"images", "markup"} => parse.i \in 1..Len(parse.manifest))
    /\ [](/\ parse.pc = "done" <=> parse.result.some
          /\ parse.pc = "failed" => parse.error # "")

\* a run that went through the Navigation stage, found a cover and loaded
\* it in the Assembly stage has returned
C15_Witness ==
    /\ parse.pc = "done"
    /\ Len(parse.navPoints) > 0
    /\ parse.coverData.some
    /\ DOMAIN parse.resources # {}

\* the image items of a manifest whose bytes parseEpub read, by place
readImages(manifest) ==
    {i \in 1..Len(manifest) :
        isImageType(manifest[i].mediaType) /\ readsBytes(epub, manifest[i].href)}

sameFileName(manifest, i, j) ==
    Last(split(manifest[i].href)) = Last(split(manifest[j].href))

\* the claim of C9 for the image items in the set images
resourcesHold(model, images) ==
    \A i \in images :
        LET href == model.manifest[i].href
            fileName == Last(split(href))
            last == CHOOSE j \in images :
                       /\ sameFileName(model.manifest, i, j)
                       /\ \A k \in images : sameFileName(model.manifest, i, k) => k <= j
        IN /\ href \in DOMAIN model.resources
           /\ fileName \in DOMAIN model.resources
           /\ model.resources[fileName] = bytesOf(epub, model.manifest[last].href)

-----------------------------------------------------------------------------
(* Claims about parseEpub and its callers *)

\* what the caller of a parseEpub invocation gets: the Document Model or the
\* error
outcome(locals) ==
    [pc |-> locals.pc, error |-> locals.error, result |-> locals.result]

localsOf(caller) ==
    IF loop.current = caller THEN parse ELSE loop.waiting.value.parse

\* C17: of two parseEpub invocations on the callers' archives whose steps
\* interleave at the awaits, each ends as the run on its archive ended that
\* ran alone.
C17_InterleavedAsAlone ==
    (loop # NULL /\ loop.phase = "interleaved") =>
        \A caller \in {1, 2} :
            localsOf(caller).pc \in {"done", "failed"}
            => outcome(localsOf(caller)) = outcome(loop.returned[caller])

\* two invocations on different archives, left for one another while both
\* were under way, have both returned, with different Document Models
C17_Witness ==
    /\ loop # NULL
    /\ loop.phase = "interleaved"
    /\ loop.overlapped
    /\ loop.archives[1] # loop.archives[2]
    /\ localsOf(1).pc = "done"
    /\ localsOf(2).pc = "done"
    /\ localsOf(1).result # localsOf(2).result
    /\ DOMAIN localsOf(1).result.value.resources # {}
    /\ DOMAIN localsOf(2).result.value.resources # {}

-----------------------------------------------------------------------------
(* Claims about the Document Model *)

\* C21: in every Document Model parseEpub returns, each key of content is
\* the id of a manifest item whose media type is 'application/xhtml+xml' or
\* 'text/html': no image, no other item and no id the manifest lacks is a
\* key.
C21_ContentKeysAreMarkupIds ==
    parse.result.some =>
        LET model == parse.result.value
        IN \A key \in DOMAIN model.content :
              \E i \in 1..Len(model.manifest) :
                 /\ model.manifest[i].id = key
                 /\ model.manifest[i].mediaType
                       \in { <<"application", Slash, "xhtml+xml">>,
                             <<"text", Slash, "html">> }

\* a Document Model was returned whose manifest holds a markup item that was
\* stored and an item that is no markup, whose entry could be read as well
C21_Witness ==
    /\ parse.result.some
    /\ DOMAIN parse.result.value.content # {}
    /\ \E i \in 1..Len(parse.result.value.manifest) :
          /\ ~isMarkupType(parse.result.value.manifest[i].mediaType)
          /\ readsText(epub, parse.result.value.manifest[i].href)

\* C24: in every Document Model returned, for each image-typed manifest
\* item whose bytes were read, resources holds the item's own bytes under the
\* item's href: another item's bytes stored under its bare file name do not
\* replace them.
C24_FullPathEntryIsOwnBytes ==
    parse.result.some =>
        LET model == parse.result.value
        IN \A i \in readImages(model.manifest) :
              /\ model.manifest[i].href \in DOMAIN model.resources
              /\ model.resources[model.manifest[i].href]
                    = bytesOf(epub, model.manifest[i].href)

\* C25: in every Document Model returned, coverPath, when present, is the
\* href of a manifest item; coverData is present only with coverPath and is
\* then the bytes of the archive entry at coverPath; when no strategy finds a
\* cover both are absent, and the Cover stage does not make the parse fail.
C25_CoverFromManifest ==
    /\ [](parse.result.some =>
            LET model == parse.result.value
            IN /\ model.coverPath.some
                    => \E i \in 1..Len(model.manifest) :
                          model.manifest[i].href = model.coverPath.value
               /\ model.coverData.some
                    => /\ model.coverPath.some
                       /\ entryState(epub, model.coverPath.value) \in {"data", "empty"}
                       /\ model.coverData.value
                             = [entry |-> model.coverPath.value,
                                state |-> entryState(epub, model.coverPath.value)]
               /\ ~findCoverPath(epub.opfDoc, model.manifest).some
                    => ~model.coverPath.some /\ ~model.coverData.some)
    /\ [][(parse.pc = "cover" /\ ~findCoverPath(epub.opfDoc, parse.manifest).some)
            => parse'.pc # "failed"]_vars

\* a Document Model with a cover and its bytes was returned, from a manifest
\* that holds an item which is not the cover
C25_Witness ==
    /\ parse.result.some
    /\ parse.result.value.coverPath.some
    /\ parse.result.value.coverData.some
    /\ \E i \in 1..Len(parse.result.value.manifest) :
          parse.result.value.manifest[i].href # parse.result.value.coverPath.value


\* ---------------------------------------------------------------------------
\* SpecReader: chapter navigation of the reader view
\* ---------------------------------------------------------------------------

MaxSpineItems == 3

SpineIds == {"ch1", "ch2"}

\* Array.prototype.indexOf: zero-based index of the first occurrence, or -1
indexOf(items, itemId) ==
    IF \E k \in 1..Len(items) : items[k] = itemId
    THEN (CHOOSE k \in 1..Len(items) :
             /\ items[k] = itemId
             /\ \A j \in 1..(k - 1) : items[j] # itemId) - 1
    ELSE -1

\* items[index] of a JS array with a zero-based index
itemAt(items, index) == items[index + 1]

\* the reader view after navigateToLocation(itemId, position); content maps
\* an id to "absent" (no key), "empty" (the string '') or "text"
navigateToLocation(view, itemId) ==
    IF ~view.readingState.some THEN view
    ELSE LET chapterIndex == indexOf(view.epubContent.spine.items, itemId)
         IN IF chapterIndex = -1 THEN view
            ELSE LET found == [view EXCEPT
                                 !.currentChapterIndex = chapterIndex,
                                 !.totalChapters = Len(view.epubContent.spine.items)]
                 IN IF itemId \notin DOMAIN view.epubContent.content
                       \/ view.epubContent.content[itemId] # "text"
                    THEN found
                    ELSE [found EXCEPT !.readingState = Some([currentLocation |-> itemId])]

navigateToPreviousChapter(view) ==
    IF view.currentChapterIndex <= 0 THEN view
    ELSE navigateToLocation(view,
            itemAt(view.epubContent.spine.items, view.currentChapterIndex - 1))

navigateToNextChapter(view) ==
    IF view.currentChapterIndex >= view.totalChapters - 1 THEN view
    ELSE navigateToLocation(view,
            itemAt(view.epubContent.spine.items, view.currentChapterIndex + 1))

\* loadBook followed by renderBook: the stored reading state, or a fresh one
\* at the first spine item ('' for an empty spine), then the first navigation
loadBook(view) ==
    LET items == view.epubContent.spine.items
        state == IF view.stored.some THEN view.stored
                 ELSE Some([currentLocation |->
                              IF Len(items) > 0 THEN items[1] ELSE ""])
        loaded == [view EXCEPT !.readingState = state, !.pc = "open"]
    IN navigateToLocation(loaded, state.value.currentLocation)

InitReader ==
    /\ \E n \in 0..MaxSpineItems :
         \E items \in [1..n -> SpineIds],
            content \in [SpineIds -> {"absent", "empty", "text"}],
            stored \in {NULL} \cup {Some([currentLocation |-> id]) : id \in SpineIds} :
            reader = [pc |-> "new",
                      epubContent |->
                          [spine |-> [items |-> items],
                           content |-> [id \in {x \in SpineIds : content[x] # "absent"}
                                           |-> content[id]]],
                      stored |-> stored,
                      readingState |-> NULL,
                      currentChapterIndex |-> 0,
                      totalChapters |-> 0,
                      pressed |-> [button |-> "none", from |-> 0]]
    /\ library = NULL
    /\ storage = NULL
    /\ PathIdle
    /\ ManifestIdle
    /\ NavIdle
    /\ CoverIdle
    /\ SpineIdle
    /\ EpubIdle
    /\ HtmlIdle

LoadBook ==
    /\ reader # NULL
    /\ reader.pc = "new"
    /\ reader' = loadBook(reader)
    /\ UNCHANGED <<library, storage, pathVars, manifestVars, navVars, coverVars,
                   spineVars, epubVars, htmlVars>>

PressNext ==
    /\ reader # NULL
    /\ reader.pc = "open"
    /\ reader' = [navigateToNextChapter(reader) EXCEPT
                     !.pressed = [button |-> "next",
                                  from |-> reader.currentChapterIndex]]
    /\ UNCHANGED <<library, storage, pathVars, manifestVars, navVars, coverVars,
                   spineVars, epubVars, htmlVars>>

PressPrevious ==
    /\ reader # NULL
    /\ reader.pc = "open"
    /\ reader' = [navigateToPreviousChapter(reader) EXCEPT
                     !.pressed = [button |-> "previous",
                                  from |-> reader.currentChapterIndex]]
    /\ UNCHANGED <<library, storage, pathVars, manifestVars, navVars, coverVars,
                   spineVars, epubVars, htmlVars>>

NextReader == LoadBook \/ PressNext \/ PressPrevious

SpecReader == InitReader /\ [][NextReader]_vars

\* C30: in an open reader, for every spine (also one that lists an id twice
\* or lists an id with no markup), the last Next press made while not on the
\* last spine position raised currentChapterIndex by exactly one, the last
\* Previous press made while not on the first lowered it by exactly one, and
\* readingState.currentLocation is spine.items[currentChapterIndex].
C30_NavigationStepsByOne ==
    (reader.pc = "open" /\ Len(reader.epubContent.spine.items) > 0) =>
        LET items == reader.epubContent.spine.items
        IN /\ (reader.pressed.button = "next" /\ reader.pressed.from < Len(items) - 1)
                 => reader.currentChapterIndex = reader.pressed.from + 1
           /\ (reader.pressed.button = "previous" /\ reader.pressed.from > 0)
                 => reader.currentChapterIndex = reader.pressed.from - 1
           /\ reader.currentChapterIndex \in 0..(Len(items) - 1)
           /\ reader.readingState.value.currentLocation
                 = itemAt(items, reader.currentChapterIndex)

\* ---------------------------------------------------------------------------
\* SpecLibrary: the in-memory book library, its collections and the
\* operations that add and remove books
\* ---------------------------------------------------------------------------

MaxBooks == 2

\* the .epub files of the library folder, in folder order
EpubFiles == <<"a.epub", "b.epub">>

CollectionIds == {"col1", "col2"}

\* getEpubFilesInFolder: the files now in the vault, in folder order
getEpubFilesInFolder(vault) ==
    SelectSeq(EpubFiles, LAMBDA f : f \in vault)

getBookByPath(books, path) ==
    IF \E b \in books : b.path = path
    THEN Some(CHOOSE b \in books : b.path = path)
    ELSE NULL

\* this.books.has(id)
hasBook(books, id) == \E b \in books : b.id = id

\* addBook on a record with a newly generated id: this.books.set(book.id, book)
addBook(lib, path) ==
    [lib EXCEPT !.books = @ \cup {[id |-> lib.nextId, path |-> path]},
                !.nextId = @ + 1]

removeBook(lib, id) ==
    IF hasBook(lib.books, id)
    THEN [lib EXCEPT !.books = {b \in @ : b.id # id}]
    ELSE lib

\* Array.prototype.includes on a collection's books
includes(bookIds, bookId) == \E k \in 1..Len(bookIds) : bookIds[k] = bookId

\* collection.books.splice(index, 1) at the first index of bookId
spliceOut(bookIds, bookId) ==
    LET index == CHOOSE k \in 1..Len(bookIds) :
                    /\ bookIds[k] = bookId
                    /\ \A j \in 1..(k - 1) : bookIds[j] # bookId
    IN SubSeq(bookIds, 1, index - 1) \o SubSeq(bookIds, index + 1, Len(bookIds))

addBookToCollection(lib, bookId, collectionId) ==
    IF /\ hasBook(lib.books, bookId)
       /\ collectionId \in DOMAIN lib.collections
       /\ ~includes(lib.collections[collectionId], bookId)
    THEN [lib EXCEPT !.collections[collectionId] = Append(@, bookId)]
    ELSE lib

removeBookFromCollection(lib, bookId, collectionId) ==
    IF /\ collectionId \in DOMAIN lib.collections
       /\ includes(lib.collections[collectionId], bookId)
    THEN [lib EXCEPT !.collections[collectionId] = spliceOut(@, bookId)]
    ELSE lib

\* the ids of the local books whose file is no longer in the vault, in the
\* order of the books map (insertion order, which is id order)
RECURSIVE booksToRemove(_, _, _)
booksToRemove(books, vault, id) ==
    IF id > MaxBooks + 1 THEN <<>>
    ELSE (IF \E b \in books : b.id = id /\ b.path \notin vault
          THEN <<id>> ELSE <<>>) \o booksToRemove(books, vault, id + 1)

libraryVarsIdle ==
    /\ storage = NULL
    /\ reader = NULL
    /\ PathIdle
    /\ ManifestIdle
    /\ NavIdle
    /\ CoverIdle
    /\ SpineIdle
    /\ EpubIdle
    /\ HtmlIdle

\* the library after initialize() with nothing stored: no books, no
\* collections, no operation under way
InitLibrary ==
    /\ \E vault \in SUBSET {EpubFiles[k] : k \in 1..Len(EpubFiles)} :
          library = [vault |-> vault,
                     books |-> {},
                     collections |-> << >>,
                     nextId |-> 1,
                     scan |-> NULL,
                     open |-> NULL]
    /\ libraryVarsIdle

libraryFrame ==
    UNCHANGED <<storage, reader, pathVars, manifestVars, navVars, coverVars,
                spineVars, epubVars, htmlVars>>

\* scanLibraryFolder is called: the files of the folder are listed
StartScan ==
    /\ library # NULL
    /\ ~library.scan.some
    /\ library' = [library EXCEPT !.scan =
                      Some([files |-> getEpubFilesInFolder(library.vault),
                            i |-> 1, pc |-> "check", toRemove |-> <<>>])]
    /\ libraryFrame

\* one turn of the scan loop: a file already in the library is passed over;
\* for a new one addBookFromFile is called, which awaits the file's bytes
ScanCheck ==
    /\ library # NULL
    /\ library.scan.some
    /\ library.scan.value.pc = "check"
    /\ library.scan.value.i <= Len(library.scan.value.files)
    /\ LET file == library.scan.value.files[library.scan.value.i]
       IN library' = IF getBookByPath(library.books, file).some
                     THEN [library EXCEPT !.scan.value.i = @ + 1]
                     ELSE [library EXCEPT !.scan.value.pc = "adding"]
    /\ libraryFrame

\* addBookFromFile resumes after reading, parsing and cover extraction:
\* addBook, or null when reading or parsing threw
ScanAdd ==
    /\ library # NULL
    /\ library.scan.some
    /\ library.scan.value.pc = "adding"
    /\ library.nextId <= MaxBooks
    /\ \E parsed \in BOOLEAN :
          LET file == library.scan.value.files[library.scan.value.i]
              added == IF parsed THEN addBook(library, file) ELSE library
          IN library' = [added EXCEPT !.scan.value.i = @ + 1,
                                      !.scan.value.pc = "check"]
    /\ libraryFrame

\* after the last file: the books whose file is gone are collected
ScanCollect ==
    /\ library # NULL
    /\ library.scan.some
    /\ library.scan.value.pc = "check"
    /\ library.scan.value.i > Len(library.scan.value.files)
    /\ library' = [library EXCEPT
                      !.scan.value.pc = "remove",
                      !.scan.value.toRemove =
                          booksToRemove(library.books, library.vault, 1)]
    /\ libraryFrame

\* removeBook for the next collected id; the scan ends after the last one
ScanRemove ==
    /\ library # NULL
    /\ library.scan.some
    /\ library.scan.value.pc = "remove"
    /\ library' =
          IF library.scan.value.toRemove = <<>>
          THEN [library EXCEPT !.scan = NULL]
          ELSE [removeBook(library, Head(library.scan.value.toRemove)) EXCEPT
                   !.scan.value.toRemove = Tail(@)]
    /\ libraryFrame

\* openBookFromFile on a file that is not in the library: awaits the bytes
OpenBookFromFile ==
    /\ library # NULL
    /\ ~library.open.some
    /\ \E file \in library.vault :
          /\ ~getBookByPath(library.books, file).some
          /\ library' = [library EXCEPT !.open = Some([file |-> file])]
    /\ libraryFrame

\* openBookFromFile resumes after reading, parsing and cover extraction
OpenAdd ==
    /\ library # NULL
    /\ library.open.some
    /\ library.nextId <= MaxBooks
    /\ library' = [addBook(library, library.open.value.file) EXCEPT !.open = NULL]
    /\ libraryFrame

RemoveBook ==
    /\ library # NULL
    /\ \E b \in library.books : library' = removeBook(library, b.id)
    /\ libraryFrame

CreateCollection ==
    /\ library # NULL
    /\ \E id \in CollectionIds \ DOMAIN library.collections :
          library' = [library EXCEPT !.collections =
                         [c \in DOMAIN @ \cup {id} |->
                             IF c = id THEN <<>> ELSE @[c]]]
    /\ libraryFrame

DeleteCollection ==
    /\ library # NULL
    /\ \E id \in DOMAIN library.collections :
          library' = [library EXCEPT !.collections =
                         [c \in DOMAIN @ \ {id} |-> @[c]]]
    /\ libraryFrame

AddBookToCollection ==
    /\ library # NULL
    /\ \E bookId \in 1..MaxBooks, collectionId \in CollectionIds :
          /\ library' = addBookToCollection(library, bookId, collectionId)
          /\ library' # library
    /\ libraryFrame

RemoveBookFromCollection ==
    /\ library # NULL
    /\ \E bookId \in 1..MaxBooks, collectionId \in CollectionIds :
          /\ library' = removeBookFromCollection(library, bookId, collectionId)
          /\ library' # library
    /\ libraryFrame

\* a file of the library folder is deleted from the vault
DeleteFile ==
    /\ library # NULL
    /\ \E file \in library.vault :
          library' = [library EXCEPT !.vault = @ \ {file}]
    /\ libraryFrame

NextLibrary ==
    \/ StartScan
    \/ ScanCheck
    \/ ScanAdd
    \/ ScanCollect
    \/ ScanRemove
    \/ OpenBookFromFile
    \/ OpenAdd
    \/ RemoveBook
    \/ CreateCollection
    \/ DeleteCollection
    \/ AddBookToCollection
    \/ RemoveBookFromCollection
    \/ DeleteFile

SpecLibrary == InitLibrary /\ [][NextLibrary]_vars

\* C26: the library never holds two Book records with the same file path,
\* whatever the interleaving of scanLibraryFolder, addBookFromFile and
\* openBookFromFile.
C26_OneRecordPerPath ==
    library # NULL =>
        \A b1, b2 \in library.books : b1.path = b2.path => b1.id = b2.id

\* C29: every book id listed in a collection is the id of a book now in the
\* library, and no collection lists the same book id twice.
C29_CollectionsListLibraryBooks ==
    library # NULL =>
        \A c \in DOMAIN library.collections :
           LET bookIds == library.collections[c]
           IN /\ \A k \in 1..Len(bookIds) : hasBook(library.books, bookIds[k])
              /\ \A j, k \in 1..Len(bookIds) : bookIds[j] = bookIds[k] => j = k

\* ---------------------------------------------------------------------------
\* SpecSaves and SpecStorage: the plugin data store (one JSON object read by
\* loadData and replaced by saveData) and the operations that persist to it
\* ---------------------------------------------------------------------------

MaxFontSize == 17

DefaultFontSize == 16

\* arguments of saveBooks and saveCollections: arrays, here of ids
BookLists == {<<"book1">>}

CollectionLists == {<<"col1">>}

SavedBookId == "book1"

Locations == {"ch1", "ch2"}

SaveOps == {"saveBooks", "saveCollections", "saveReadingState"}

\* the StorageData object after the assignment each save makes to its section
withSection(data, op, arg) ==
    CASE op = "saveBooks" -> [data EXCEPT !.books = Some(arg)]
      [] op = "saveCollections" -> [data EXCEPT !.collections = Some(arg)]
      [] op = "saveReadingState" ->
            LET states == IF data.readingStates.some
                          THEN data.readingStates.value ELSE << >>
            IN [data EXCEPT !.readingStates =
                   Some([id \in DOMAIN states \cup {SavedBookId} |->
                            IF id = SavedBookId THEN arg ELSE states[id]])]

SaveArgs(op) ==
    CASE op = "saveBooks" -> BookLists
      [] op = "saveCollections" -> CollectionLists
      [] op = "saveReadingState" -> Locations

\* loadSettings: Object.assign({}, DEFAULT_SETTINGS, await this.loadData());
\* every key of the stored object is copied, the three data sections included
loadSettings(file) ==
    [file EXCEPT !.fontSize = IF file.fontSize.some THEN file.fontSize
                              ELSE Some(DefaultFontSize)]

\* importData: the object written holds the three sections and nothing else
importData(imported) ==
    [fontSize |-> NULL,
     books |-> Some(imported.books),
     collections |-> Some(imported.collections),
     readingStates |-> Some(imported.readingStates)]

inFlight(call) == call.pc \in {"loading", "saving"}

\* the store as found at startup, this.settings as loadSettings built it, and
\* no save under way
InitStorage ==
    /\ \E fontSize \in {NULL, Some(DefaultFontSize)},
          books \in {NULL, Some(<<>>)},
          collections \in {NULL, Some(<<>>)},
          readingStates \in {NULL, Some([id \in {"book2"} |-> "ch1"])} :
          LET file == [fontSize |-> fontSize, books |-> books,
                       collections |-> collections,
                       readingStates |-> readingStates]
          IN storage = [file |-> file,
                        settings |-> loadSettings(file),
                        calls |-> [op \in SaveOps |->
                                      [pc |-> "idle", arg |-> NULL, data |-> NULL]],
                        together |-> FALSE]
    /\ library = NULL
    /\ reader = NULL
    /\ PathIdle
    /\ ManifestIdle
    /\ NavIdle
    /\ CoverIdle
    /\ SpineIdle
    /\ EpubIdle
    /\ HtmlIdle

storageFrame ==
    UNCHANGED <<library, reader, pathVars, manifestVars, navVars, coverVars,
                spineVars, epubVars, htmlVars>>

\* a save is called and awaits loadAllData; together records that all three
\* saves were started before any of them finished
StartSave ==
    /\ storage # NULL
    /\ \E op \in SaveOps :
          /\ storage.calls[op].pc = "idle"
          /\ \E arg \in SaveArgs(op) :
                storage' = [storage EXCEPT
                    !.calls[op] = [pc |-> "loading", arg |-> Some(arg), data |-> NULL],
                    !.together = \A other \in SaveOps \ {op} :
                                     inFlight(storage.calls[other])]
    /\ storageFrame

\* loadAllData resolves: the save sets its section in the object it was
\* given and calls saveAllData, which awaits saveData
LoadAllData ==
    /\ storage # NULL
    /\ \E op \in SaveOps :
          /\ storage.calls[op].pc = "loading"
          /\ storage' = [storage EXCEPT
                !.calls[op].pc = "saving",
                !.calls[op].data =
                    Some(withSection(storage.file, op, storage.calls[op].arg.value))]
    /\ storageFrame

\* saveData replaces the stored object by the one the save holds
SaveAllData ==
    /\ storage # NULL
    /\ \E op \in SaveOps :
          /\ storage.calls[op].pc = "saving"
          /\ storage' = [storage EXCEPT
                !.file = storage.calls[op].data.value,
                !.calls[op].pc = "done"]
    /\ storageFrame

NextSaves == StartSave \/ LoadAllData \/ SaveAllData

SpecSaves == InitStorage /\ [][NextSaves]_vars

\* the 'Increase Font Size' menu item: the setting is changed in
\* this.settings and saveSettings writes this.settings as the stored object
SaveSettings ==
    /\ storage # NULL
    /\ storage.settings.fontSize.value < MaxFontSize
    /\ LET settings == [storage.settings EXCEPT !.fontSize = Some(@.value + 1)]
       IN storage' = [storage EXCEPT !.settings = settings, !.file = settings]
    /\ storageFrame

\* importData on a JSON text that passes the structure test
ImportData ==
    /\ storage # NULL
    /\ \E books \in BookLists, collections \in CollectionLists :
          storage' = [storage EXCEPT !.file =
                         importData([books |-> books, collections |-> collections,
                                     readingStates |-> << >>])]
    /\ storageFrame

NextStorage == StartSave \/ LoadAllData \/ SaveAllData \/ SaveSettings \/ ImportData

SpecStorage == InitStorage /\ [][NextStorage]_vars

\* C27: when saveReadingState(id, s), saveBooks(b) and saveCollections(c)
\* were all started before any of them finished, then once all three have
\* completed the store holds readingStates[id] = s, books = b and
\* collections = c.
C27_NoSaveLost ==
    (/\ storage # NULL
     /\ storage.together
     /\ \A op \in SaveOps : storage.calls[op].pc = "done") =>
        /\ storage.file.books = storage.calls["saveBooks"].arg
        /\ storage.file.collections = storage.calls["saveCollections"].arg
        /\ storage.file.readingStates.some
        /\ SavedBookId \in DOMAIN storage.file.readingStates.value
        /\ storage.file.readingStates.value[SavedBookId]
              = storage.calls["saveReadingState"].arg.value

\* C28: saveSettings leaves the stored books, collections and reading states
\* as they were, and the writes of saveBooks, saveCollections,
\* saveReadingState and importData leave the stored settings as they were.
C28_OwnSectionOnly ==
    /\ [][SaveSettings =>
            /\ storage'.file.books = storage.file.books
            /\ storage'.file.collections = storage.file.collections
            /\ storage'.file.readingStates = storage.file.readingStates]_vars
    /\ [][(SaveAllData \/ ImportData) =>
            storage'.file.fontSize = storage.file.fontSize]_vars
=============================================================================
